---------------------------- MODULE Spec2Model ----------------------------
(***************************************************************************)
(* The LinkedIn text tools of the agent demos (web_ui_server.py, app.py,   *)
(* linkedin_agent_example.py, streamlit_ui.py): the length classifier in   *)
(* its two threshold schemes, the hashtag recommender in its two catalog   *)
(* variants, the engagement scorer, the formatting validator and the      *)
(* post formatter; tool calls running side by side, each on its own frame  *)
(* (CallSpec); the websocket endpoint of web_ui_server.py with its         *)
(* connection manager (WsSpec, WsFairSpec); the calculator tool with the   *)
(* part of eval it can reach (CalcSpec); and POST /chat of app.py          *)
(* (ChatSpec).                                                             *)
(*                                                                         *)
(* A Python str is a sequence of one-character strings; len, lower, in,    *)
(* split and strip are modelled on that sequence.  A tool's formatted      *)
(* return string is a record of the values its f-string interpolates.      *)
(* The feedback marks of the source (check mark, cross, warning sign) are  *)
(* written "[OK] ", "[X] " and "[!] ": the module is ASCII.                *)
(***************************************************************************)
EXTENDS Integers, Sequences, FiniteSets, TLC

VARIABLES
    tool,       \* the tool function that has run ("none" before the call)
    content,    \* the content argument of the text tools
    topic,      \* the topic argument of suggest_hashtags
    industry,   \* the industry argument of suggest_hashtags
    result,     \* what the tool returned
    frames,     \* per caller, the frame of its tool call: arguments, locals
    returned,   \* the calls that have returned, in the order of their return
    active_connections,     \* manager.active_connections
    conversation_history,   \* manager.conversation_history
    handler,    \* per websocket, where its websocket_endpoint coroutine is
    sent,       \* per websocket, the frames send_message has sent on it
    client_open,    \* per websocket, whether its client is still connected
    chat        \* per HTTP client, its POST /chat request to app.py

toolvars == <<tool, content, topic, industry, result>>

callvars == <<frames, returned>>

wsvars == <<active_connections, conversation_history, handler, sent, client_open>>

chatvars == <<chat>>

vars == <<tool, content, topic, industry, result, frames, returned,
          active_connections, conversation_history, handler, sent, client_open, chat>>

---------------------------------------------------------------------------
(* Python str operations *)

LowerMap ==
    [c \in {"A","B","C","D","E","F","G","H","I","J","K","L","M",
            "N","O","P","Q","R","S","T","U","V","W","X","Y","Z"} |->
        CASE c = "A" -> "a" [] c = "B" -> "b" [] c = "C" -> "c" [] c = "D" -> "d"
          [] c = "E" -> "e" [] c = "F" -> "f" [] c = "G" -> "g" [] c = "H" -> "h"
          [] c = "I" -> "i" [] c = "J" -> "j" [] c = "K" -> "k" [] c = "L" -> "l"
          [] c = "M" -> "m" [] c = "N" -> "n" [] c = "O" -> "o" [] c = "P" -> "p"
          [] c = "Q" -> "q" [] c = "R" -> "r" [] c = "S" -> "s" [] c = "T" -> "t"
          [] c = "U" -> "u" [] c = "V" -> "v" [] c = "W" -> "w" [] c = "X" -> "x"
          [] c = "Y" -> "y" [] c = "Z" -> "z"]

\* str.lower(): every upper-case letter replaced by its lower-case letter.
Lower(s) == [i \in 1..Len(s) |-> IF s[i] \in DOMAIN LowerMap THEN LowerMap[s[i]] ELSE s[i]] \o <<>>

\* p in s: p occurs in s as a contiguous substring (the empty p always does).
In(p, s) ==
    \E i \in 1..(Len(s) - Len(p) + 1) : \A k \in 1..Len(p) : s[i + k - 1] = p[k]

\* p occurs in s from position i on.
StartsAt(p, s, i) == i + Len(p) - 1 <= Len(s) /\ \A k \in 1..Len(p) : s[i + k - 1] = p[k]

\* any(p in s for p in ps): some p is empty, or some p starts somewhere in s
\* (at a character that is the first of one of them).
AnyIn(ps, s) ==
    LET text == s \o <<>>
        firsts == {ps[n][1] : n \in {m \in 1..Len(ps) : ps[m] # <<>>}}
    IN  \/ \E n \in 1..Len(ps) : ps[n] = <<>>
        \/ \E i \in 1..Len(text) :
               text[i] \in firsts /\ \E n \in 1..Len(ps) : StartsAt(ps[n], text, i)

Whitespace == {" ", "\n", "\t", "\r"}

\* bool(line.strip()): the line holds a character that is not whitespace.
NonBlank(line) == \E i \in 1..Len(line) : line[i] \notin Whitespace

RECURSIVE Ascending(_)
\* The elements of a finite set of integers in increasing order.
Ascending(S) ==
    IF S = {} THEN <<>>
    ELSE LET m == CHOOSE x \in S : \A y \in S : x <= y
         IN  <<m>> \o Ascending(S \ {m})

\* s.split('\n'): the pieces between the newlines, never an empty list.
Split(s) ==
    LET cuts == <<0>> \o Ascending({i \in 1..Len(s) : s[i] = "\n"}) \o <<Len(s) + 1>>
    IN  [k \in 1..(Len(cuts) - 1) |-> SubSeq(s, cuts[k] + 1, cuts[k + 1] - 1)]

RECURSIVE Flatten(_)
\* ''.join(parts)
Flatten(parts) ==
    IF parts = <<>> THEN <<>> ELSE Head(parts) \o Flatten(Tail(parts))

---------------------------------------------------------------------------
(* analyze_post_length, the 2500-character scheme *)

analyze_post_length_off_by_one(c) ==
    LET length == Len(c)
    IN  IF length < 300 THEN
            [length |-> length, verdict |-> "TOO SHORT",
             advice |-> "LinkedIn posts should be under 2,500 characters but with substantial content."]
        ELSE IF length < 2500 THEN
            [length |-> length, verdict |-> "PERFECT LENGTH",
             advice |-> "Under the 2,500 character limit!"]
        ELSE
            [length |-> length, verdict |-> "TOO LONG",
             advice |-> "Must be under 2,500 characters. Please shorten the content."]

\* What a Python function returns when it ends without a return statement.
None == [none |-> TRUE]

analyze_post_length_no_else(c) ==
    LET length == Len(c)
    IN  IF length < 300 THEN
            [length |-> length, verdict |-> "TOO SHORT",
             advice |-> "LinkedIn posts should be under 2,500 characters but with substantial content."]
        ELSE IF length <= 2500 THEN
            [length |-> length, verdict |-> "PERFECT LENGTH",
             advice |-> "Under the 2,500 character limit!"]
        ELSE None

\* f"Post is {length} characters - {verdict}. {advice}"
analyze_post_length(c) ==
    LET length == Len(c)
    IN  IF length < 300 THEN
            [length |-> length, verdict |-> "TOO SHORT",
             advice |-> "LinkedIn posts should be under 2,500 characters but with substantial content."]
        ELSE IF length <= 2500 THEN
            [length |-> length, verdict |-> "PERFECT LENGTH",
             advice |-> "Under the 2,500 character limit!"]
        ELSE
            [length |-> length, verdict |-> "TOO LONG",
             advice |-> "Must be under 2,500 characters. Please shorten the content."]

(* analyze_post_length, the 1300-3000 scheme *)

analyze_post_length_linkedin_shifted(c) ==
    LET length == Len(c)
    IN  IF length < 300 THEN
            [length |-> length, verdict |-> "TOO SHORT",
             advice |-> "LinkedIn posts should be 1300-3000 characters for optimal reach."]
        ELSE IF length <= 1300 THEN
            [length |-> length, verdict |-> "SHORT",
             advice |-> "Consider expanding with more details, examples, or insights."]
        ELSE IF length <= 3000 THEN
            [length |-> length, verdict |-> "OPTIMAL LENGTH",
             advice |-> "Perfect for LinkedIn engagement!"]
        ELSE
            [length |-> length, verdict |-> "TOO LONG",
             advice |-> "Consider breaking into multiple posts or cutting unnecessary content."]

analyze_post_length_linkedin(c) ==
    LET length == Len(c)
    IN  IF length < 300 THEN
            [length |-> length, verdict |-> "TOO SHORT",
             advice |-> "LinkedIn posts should be 1300-3000 characters for optimal reach."]
        ELSE IF length < 1300 THEN
            [length |-> length, verdict |-> "SHORT",
             advice |-> "Consider expanding with more details, examples, or insights."]
        ELSE IF length <= 3000 THEN
            [length |-> length, verdict |-> "OPTIMAL LENGTH",
             advice |-> "Perfect for LinkedIn engagement!"]
        ELSE
            [length |-> length, verdict |-> "TOO LONG",
             advice |-> "Consider breaking into multiple posts or cutting unnecessary content."]

---------------------------------------------------------------------------
(* suggest_hashtags *)

general_hashtags == <<"#LinkedIn", "#Professional", "#Career", "#Business", "#Growth">>

\* The catalog of web_ui_server.py.
industry_hashtags ==
    (<<"t", "e", "c", "h">> :>
        <<"#Technology", "#Innovation", "#AI", "#Software", "#TechTrends">>)
    @@ (<<"m", "a", "r", "k", "e", "t", "i", "n", "g">> :>
        <<"#Marketing", "#DigitalMarketing", "#ContentMarketing", "#Branding", "#SocialMedia">>)
    @@ (<<"l", "e", "a", "d", "e", "r", "s", "h", "i", "p">> :>
        <<"#Leadership", "#Management", "#TeamBuilding", "#ExecutiveCoaching", "#WorkplaceCulture">>)
    @@ (<<"e", "n", "t", "r", "e", "p", "r", "e", "n", "e", "u", "r", "s", "h", "i", "p">> :>
        <<"#Entrepreneur", "#Startup", "#SmallBusiness", "#Innovation", "#BusinessGrowth">>)
    @@ (<<"f", "i", "n", "a", "n", "c", "e">> :>
        <<"#Finance", "#Investing", "#FinTech", "#Banking", "#Economics">>)
    @@ (<<"s", "a", "l", "e", "s">> :>
        <<"#Sales", "#B2B", "#CustomerSuccess", "#SalesStrategy", "#Networking">>)

\* The catalog of linkedin_agent_example.py: two more industries.
industry_hashtags_linkedin ==
    industry_hashtags
    @@ (<<"h", "r">> :>
        <<"#HumanResources", "#Recruiting", "#TalentAcquisition", "#WorkplaceCulture", "#EmployeeEngagement">>)
    @@ (<<"c", "o", "n", "s", "u", "l", "t", "i", "n", "g">> :>
        <<"#Consulting", "#Strategy", "#BusinessConsulting", "#ProfessionalServices", "#Advisory">>)

industry_hashtags_app_no_sales ==
    (<<"t", "e", "c", "h">> :>
        <<"#Technology", "#Innovation", "#AI", "#Software", "#TechTrends">>)
    @@ (<<"m", "a", "r", "k", "e", "t", "i", "n", "g">> :>
        <<"#Marketing", "#DigitalMarketing", "#ContentMarketing", "#Branding", "#SocialMedia">>)
    @@ (<<"l", "e", "a", "d", "e", "r", "s", "h", "i", "p">> :>
        <<"#Leadership", "#Management", "#TeamBuilding", "#ExecutiveCoaching", "#WorkplaceCulture">>)
    @@ (<<"e", "n", "t", "r", "e", "p", "r", "e", "n", "e", "u", "r", "s", "h", "i", "p">> :>
        <<"#Entrepreneur", "#Startup", "#SmallBusiness", "#Innovation", "#BusinessGrowth">>)
    @@ (<<"f", "i", "n", "a", "n", "c", "e">> :>
        <<"#Finance", "#Investing", "#FinTech", "#Banking", "#Economics">>)

\* The catalog of app.py.
industry_hashtags_app ==
    (<<"t", "e", "c", "h">> :>
        <<"#Technology", "#Innovation", "#AI", "#Software", "#TechTrends">>)
    @@ (<<"m", "a", "r", "k", "e", "t", "i", "n", "g">> :>
        <<"#Marketing", "#DigitalMarketing", "#ContentMarketing", "#Branding", "#SocialMedia">>)
    @@ (<<"l", "e", "a", "d", "e", "r", "s", "h", "i", "p">> :>
        <<"#Leadership", "#Management", "#TeamBuilding", "#ExecutiveCoaching", "#WorkplaceCulture">>)
    @@ (<<"e", "n", "t", "r", "e", "p", "r", "e", "n", "e", "u", "r", "s", "h", "i", "p">> :>
        <<"#Entrepreneur", "#Startup", "#SmallBusiness", "#Innovation", "#BusinessGrowth">>)
    @@ (<<"f", "i", "n", "a", "n", "c", "e">> :>
        <<"#Finance", "#Investing", "#FinTech", "#Banking", "#Economics">>)
    @@ (<<"s", "a", "l", "e", "s">> :>
        <<"#Sales", "#B2B", "#CustomerSuccess", "#SalesStrategy", "#Networking">>)

\* The catalog of streamlit_ui.py.
industry_hashtags_streamlit ==
    (<<"t", "e", "c", "h">> :>
        <<"#Technology", "#Innovation", "#AI", "#Software", "#TechTrends">>)
    @@ (<<"m", "a", "r", "k", "e", "t", "i", "n", "g">> :>
        <<"#Marketing", "#DigitalMarketing", "#ContentMarketing", "#Branding", "#SocialMedia">>)
    @@ (<<"l", "e", "a", "d", "e", "r", "s", "h", "i", "p">> :>
        <<"#Leadership", "#Management", "#TeamBuilding", "#ExecutiveCoaching", "#WorkplaceCulture">>)
    @@ (<<"e", "n", "t", "r", "e", "p", "r", "e", "n", "e", "u", "r", "s", "h", "i", "p">> :>
        <<"#Entrepreneur", "#Startup", "#SmallBusiness", "#Innovation", "#BusinessGrowth">>)
    @@ (<<"f", "i", "n", "a", "n", "c", "e">> :>
        <<"#Finance", "#Investing", "#FinTech", "#Banking", "#Economics">>)
    @@ (<<"s", "a", "l", "e", "s">> :>
        <<"#Sales", "#B2B", "#CustomerSuccess", "#SalesStrategy", "#Networking">>)

get_default_general(catalog, key) ==
    IF key \in DOMAIN catalog THEN catalog[key] ELSE general_hashtags

\* industry_hashtags.get(key, [])
get(catalog, key) == IF key \in DOMAIN catalog THEN catalog[key] ELSE <<>>

Take_unsliced(s, n) == s

\* s[:n]
Take(s, n) == SubSeq(s, 1, IF n < Len(s) THEN n ELSE Len(s))

\* list(dict.fromkeys(s)): the first occurrence of every element, in order.
FromKeys(s) ==
    LET first == {i \in 1..Len(s) : \A j \in 1..(i - 1) : s[j] # s[i]}
    IN  [k \in 1..Cardinality(first) |-> s[Ascending(first)[k]]]

suggested_for_last_first(topic_lower) ==
    (IF \/ In(<<"t", "i", "p">>, topic_lower)
        \/ In(<<"a", "d", "v", "i", "c", "e">>, topic_lower)
     THEN <<"#Tips", "#Advice", "#BestPractices">> ELSE <<>>)
    \o
    (IF \/ In(<<"t", "e", "a", "m">>, topic_lower)
        \/ In(<<"c", "o", "l", "l", "a", "b", "o", "r", "a", "t", "i", "o", "n">>, topic_lower)
     THEN <<"#Teamwork", "#Collaboration", "#TeamSuccess">> ELSE <<>>)
    \o
    (IF \/ In(<<"s", "u", "c", "c", "e", "s", "s">>, topic_lower)
        \/ In(<<"a", "c", "h", "i", "e", "v", "e", "m", "e", "n", "t">>, topic_lower)
     THEN <<"#Success", "#Achievement", "#Goals">> ELSE <<>>)
    \o
    (IF \/ In(<<"l", "e", "a", "r", "n">>, topic_lower)
        \/ In(<<"e", "d", "u", "c", "a", "t", "i", "o", "n">>, topic_lower)
     THEN <<"#Learning", "#ProfessionalDevelopment", "#SkillBuilding">> ELSE <<>>)

\* The four keyword rules, in the order of their if statements; each
\* extends suggested with its hashtags when one of its triggers is in the
\* lower-cased topic.
suggested_for(topic_lower) ==
    (IF \/ In(<<"l", "e", "a", "r", "n">>, topic_lower)
        \/ In(<<"e", "d", "u", "c", "a", "t", "i", "o", "n">>, topic_lower)
     THEN <<"#Learning", "#ProfessionalDevelopment", "#SkillBuilding">> ELSE <<>>)
    \o
    (IF \/ In(<<"s", "u", "c", "c", "e", "s", "s">>, topic_lower)
        \/ In(<<"a", "c", "h", "i", "e", "v", "e", "m", "e", "n", "t">>, topic_lower)
     THEN <<"#Success", "#Achievement", "#Goals">> ELSE <<>>)
    \o
    (IF \/ In(<<"t", "e", "a", "m">>, topic_lower)
        \/ In(<<"c", "o", "l", "l", "a", "b", "o", "r", "a", "t", "i", "o", "n">>, topic_lower)
     THEN <<"#Teamwork", "#Collaboration", "#TeamSuccess">> ELSE <<>>)
    \o
    (IF \/ In(<<"t", "i", "p">>, topic_lower)
        \/ In(<<"a", "d", "v", "i", "c", "e">>, topic_lower)
     THEN <<"#Tips", "#Advice", "#BestPractices">> ELSE <<>>)

combine_topic_first(by_industry, suggested) ==
    Take(suggested, 2) \o Take(by_industry, 2) \o Take(general_hashtags, 1)

\* final_hashtags after its three extend calls
combine(by_industry, suggested) ==
    Take(by_industry, 2) \o Take(suggested, 2) \o Take(general_hashtags, 1)

\* The body shared by every copy of suggest_hashtags, over the copy's catalog.
\* f"Recommended hashtags: {' '.join(final_hashtags)}"
suggest_hashtags_over(catalog, t, ind) ==
    LET topic_lower == Lower(t)
        suggested == suggested_for(topic_lower)
        by_industry == get(catalog, Lower(ind))
        final_hashtags == Take(FromKeys(combine(by_industry, suggested)), 5)
    IN  [label |-> "Recommended hashtags:", hashtags |-> final_hashtags]

suggest_hashtags(t, ind) == suggest_hashtags_over(industry_hashtags, t, ind)

suggest_hashtags_linkedin(t, ind) == suggest_hashtags_over(industry_hashtags_linkedin, t, ind)

\* The copies of app.py and of streamlit_ui.py: the text of the function is
\* the one of web_ui_server.py.
suggest_hashtags_app(t, ind) == suggest_hashtags_over(industry_hashtags_app, t, ind)

suggest_hashtags_streamlit(t, ind) == suggest_hashtags_over(industry_hashtags_streamlit, t, ind)

---------------------------------------------------------------------------
(* check_engagement_potential *)

\* Each check adds its points to score and appends its notes to feedback.

\* if "?" in content
question_check(c) ==
    IF In(<<"?">>, c)
    THEN [points |-> 20, notes |-> <<"[OK] Contains questions (encourages comments)">>]
    ELSE [points |-> 0,
          notes |-> <<"[X] No questions found - add questions to encourage engagement">>]

personal_indicators == <<
    <<"I", " ", "l", "e", "a", "r", "n", "e", "d">>,
    <<"M", "y", " ", "e", "x", "p", "e", "r", "i", "e", "n", "c", "e">>,
    <<"W", "h", "e", "n", " ", "I">>,
    <<"I", " ", "d", "i", "s", "c", "o", "v", "e", "r", "e", "d">>,
    <<"I", " ", "r", "e", "a", "l", "i", "z", "e", "d">> >>

personal_check_thirty(c) ==
    IF AnyIn([n \in 1..Len(personal_indicators) |-> Lower(personal_indicators[n])], Lower(c))
    THEN [points |-> 30, notes |-> <<"[OK] Includes personal experience (builds connection)">>]
    ELSE [points |-> 0, notes |-> <<"[!] Consider adding personal experience or story">>]

\* if any(indicator.lower() in content.lower() for indicator in personal_indicators)
personal_check(c) ==
    IF AnyIn([n \in 1..Len(personal_indicators) |-> Lower(personal_indicators[n])], Lower(c))
    THEN [points |-> 25, notes |-> <<"[OK] Includes personal experience (builds connection)">>]
    ELSE [points |-> 0, notes |-> <<"[!] Consider adding personal experience or story">>]

action_words == <<
    <<"t", "i", "p">>,
    <<"s", "t", "r", "a", "t", "e", "g", "y">>,
    <<"h", "o", "w", " ", "t", "o">>,
    <<"s", "t", "e", "p">>,
    <<"m", "e", "t", "h", "o", "d">>,
    <<"t", "e", "c", "h", "n", "i", "q", "u", "e">> >>

action_check_silent(c) ==
    IF AnyIn(action_words, Lower(c))
    THEN [points |-> 20, notes |-> <<"[OK] Contains actionable content">>]
    ELSE [points |-> 0, notes |-> <<>>]

\* if any(word in content.lower() for word in action_words)
action_check(c) ==
    IF AnyIn(action_words, Lower(c))
    THEN [points |-> 20, notes |-> <<"[OK] Contains actionable content">>]
    ELSE [points |-> 0, notes |-> <<"[!] Consider adding actionable tips or insights">>]

\* if "\n\n" in content
paragraph_check(c) ==
    IF In(<<"\n", "\n">>, c)
    THEN [points |-> 15, notes |-> <<"[OK] Good paragraph breaks">>]
    ELSE [points |-> 0, notes |-> <<"[X] Needs better paragraph formatting">>]

length_check_2500(c) ==
    LET length == Len(c)
    IN  IF 1300 <= length /\ length <= 2500
        THEN [points |-> 20, notes |-> <<"[OK] Optimal length">>]
        ELSE [points |-> 0, notes |-> <<"[X] Length needs adjustment">>]

length_check_exclusive(c) ==
    LET length == Len(c)
    IN  IF 1300 < length /\ length < 3000
        THEN [points |-> 20, notes |-> <<"[OK] Optimal length">>]
        ELSE [points |-> 0, notes |-> <<"[X] Length needs adjustment">>]

\* if 1300 <= length <= 3000
length_check(c) ==
    LET length == Len(c)
    IN  IF 1300 <= length /\ length <= 3000
        THEN [points |-> 20, notes |-> <<"[OK] Optimal length">>]
        ELSE [points |-> 0, notes |-> <<"[X] Length needs adjustment">>]

engagement_level_seventy(score) ==
    IF score >= 70 THEN "HIGH"
    ELSE IF score >= 60 THEN "MEDIUM-HIGH"
    ELSE IF score >= 40 THEN "MEDIUM"
    ELSE "LOW"

engagement_level_strict(score) ==
    IF score > 80 THEN "HIGH"
    ELSE IF score > 60 THEN "MEDIUM-HIGH"
    ELSE IF score > 40 THEN "MEDIUM"
    ELSE "LOW"

\* the if/elif chain that sets level
engagement_level(score) ==
    IF score >= 80 THEN "HIGH"
    ELSE IF score >= 60 THEN "MEDIUM-HIGH"
    ELSE IF score >= 40 THEN "MEDIUM"
    ELSE "LOW"

\* f"Engagement Score: {score}/100 ({level})\n\nFeedback:\n" + "\n".join(feedback)
check_engagement_potential(c) ==
    LET q == question_check(c)
        p == personal_check(c)
        a == action_check(c)
        f == paragraph_check(c)
        l == length_check(c)
        score == q.points + p.points + a.points + f.points + l.points
    IN  [score |-> score,
         level |-> engagement_level(score),
         feedback |-> q.notes \o p.notes \o a.notes \o f.notes \o l.notes]

---------------------------------------------------------------------------
(* validate_linkedin_formatting *)

line_length_check_two(lines) ==
    LET long_lines == {k \in 1..Len(lines) : Len(lines[k]) > 80 /\ NonBlank(lines[k])}
    IN  IF Cardinality(long_lines) >= 2
        THEN [points |-> 0,
              notes |-> <<"[X] Too many long lines. Break thoughts into shorter lines (max 80 chars)">>]
        ELSE [points |-> 20,
              notes |-> <<"[OK] Good line length - thoughts broken into digestible pieces">>]

\* long_lines = [line for line in lines if len(line) > 80 and line.strip()]
\* if len(long_lines) > 2
line_length_check(lines) ==
    LET long_lines == {k \in 1..Len(lines) : Len(lines[k]) > 80 /\ NonBlank(lines[k])}
    IN  IF Cardinality(long_lines) > 2
        THEN [points |-> 0,
              notes |-> <<"[X] Too many long lines. Break thoughts into shorter lines (max 80 chars)">>]
        ELSE [points |-> 20,
              notes |-> <<"[OK] Good line length - thoughts broken into digestible pieces">>]

hook_check_nonempty(lines) ==
    IF Len(lines) > 0 /\ Len(lines[1]) > 0 /\ Len(lines[1]) < 60
    THEN [points |-> 20, notes |-> <<"[OK] Strong hook - first line is concise and impactful">>]
    ELSE [points |-> 0,
          notes |-> <<"[X] Hook too long - first line should be under 60 characters">>]

\* if lines and len(lines[0]) < 60
hook_check(lines) ==
    IF Len(lines) > 0 /\ Len(lines[1]) < 60
    THEN [points |-> 20, notes |-> <<"[OK] Strong hook - first line is concise and impactful">>]
    ELSE [points |-> 0,
          notes |-> <<"[X] Hook too long - first line should be under 60 characters">>]

\* empty_lines = [i for i, line in enumerate(lines) if not line.strip()]
\* if len(empty_lines) >= 2
spacing_check(lines) ==
    LET empty_lines == {k \in 1..Len(lines) : ~NonBlank(lines[k])}
    IN  IF Cardinality(empty_lines) >= 2
        THEN [points |-> 15, notes |-> <<"[OK] Good use of white space between sections">>]
        ELSE [points |-> 0,
              notes |-> <<"[X] Need more white space - add empty lines between sections">>]

cta_indicators == <<
    <<"?">>,
    <<"c", "o", "m", "m", "e", "n", "t">>,
    <<"s", "h", "a", "r", "e">>,
    <<"t", "h", "o", "u", "g", "h", "t", "s">>,
    <<"e", "x", "p", "e", "r", "i", "e", "n", "c", "e">>,
    <<"s", "t", "o", "r", "y">> >>

\* has_cta = any(indicator in content.lower() for indicator in cta_indicators)
cta_check(c) ==
    IF AnyIn(cta_indicators, Lower(c))
    THEN [points |-> 20, notes |-> <<"[OK] Clear call-to-action present">>]
    ELSE [points |-> 0,
          notes |-> <<"[X] Missing call-to-action - add questions or engagement prompts">>]

\* if "PS:" in content or "P.S." in content
ps_check(c) ==
    IF In(<<"P", "S", ":">>, c) \/ In(<<"P", ".", "S", ".">>, c)
    THEN [points |-> 15, notes |-> <<"[OK] PS section included">>]
    ELSE [points |-> 0,
          notes |-> <<"[X] Missing PS section - add postscript for extra engagement">>]

limit_check_3000(c) ==
    IF Len(c) <= 3000
    THEN [points |-> 10, notes |-> <<"[OK] Under 2,500 character limit">>]
    ELSE [points |-> 0, notes |-> <<"[X] Over 2,500 character limit - needs to be shortened">>]

\* if len(content) <= 2500
limit_check(c) ==
    IF Len(c) <= 2500
    THEN [points |-> 10, notes |-> <<"[OK] Under 2,500 character limit">>]
    ELSE [points |-> 0, notes |-> <<"[X] Over 2,500 character limit - needs to be shortened">>]

\* f"Formatting Score: {score}/100\n\nFormatting Analysis:\n" + "\n".join(feedback)
validate_linkedin_formatting(c) ==
    LET lines == Split(c) \o <<>>
        ll == line_length_check(lines)
        hk == hook_check(lines)
        sp == spacing_check(lines)
        cta == cta_check(c)
        ps == ps_check(c)
        lim == limit_check(c)
    IN  [score |-> ll.points + hk.points + sp.points + cta.points + ps.points + lim.points,
         feedback |-> ll.notes \o hk.notes \o sp.notes \o cta.notes \o ps.notes \o lim.notes]

---------------------------------------------------------------------------
(* format_linkedin_post_correctly *)

\* s.replace('.', '.\n').replace('!', '!\n').replace('?', '?\n'): a newline
\* is put after every full stop, exclamation mark and question mark.
replace_breaks(s) ==
    LET marks == Ascending({i \in 1..Len(s) : s[i] \in {".", "!", "?"}})
        added == {marks[m] + m : m \in 1..Len(marks)}
    IN  [j \in 1..(Len(s) + Len(marks)) |->
            IF j \in added THEN "\n" ELSE s[j - Cardinality({a \in added : a < j})]] \o <<>>

\* str.strip(): the text between its first and its last non-whitespace
\* character.
strip(s) ==
    IF \A i \in 1..Len(s) : s[i] \in Whitespace THEN <<>>
    ELSE SubSeq(s, CHOOSE a \in 1..Len(s) :
                       s[a] \notin Whitespace /\ \A b \in 1..(a - 1) : s[b] \in Whitespace,
                   CHOOSE a \in 1..Len(s) :
                       s[a] \notin Whitespace /\ \A b \in (a + 1)..Len(s) : s[b] \in Whitespace)

\* str.split() without argument: the maximal runs of non-whitespace.
split_words(s) ==
    LET first == Ascending({i \in 1..Len(s) :
                     s[i] \notin Whitespace /\ (i = 1 \/ s[i - 1] \in Whitespace)})
        last == Ascending({i \in 1..Len(s) :
                    s[i] \notin Whitespace /\ (i = Len(s) \/ s[i + 1] \in Whitespace)})
    IN  [k \in 1..Len(first) |-> SubSeq(s, first[k], last[k])]

\* sep.join(parts)
join(sep, parts) ==
    LET pieces == [k \in 1..Len(parts) |-> IF k = 1 THEN parts[k] ELSE sep \o parts[k]] \o <<>>
    IN  Flatten(pieces)

add_word_unsliced(state, word) ==
    LET current_line == Append(state.current_line, word)
    IN  IF Len(join(<<" ">>, current_line)) > 15
        THEN IF Len(current_line) > 1
             THEN [lines |-> Append(state.lines, join(<<" ">>, current_line)),
                   current_line |-> <<word>>]
             ELSE [lines |-> Append(state.lines, word), current_line |-> <<>>]
        ELSE [lines |-> state.lines, current_line |-> current_line]

add_word_dropped(state, word) ==
    LET current_line == Append(state.current_line, word)
    IN  IF Len(join(<<" ">>, current_line)) > 15
        THEN IF Len(current_line) > 1
             THEN [lines |-> Append(state.lines, join(<<" ">>, state.current_line)),
                   current_line |-> <<>>]
             ELSE [lines |-> Append(state.lines, word), current_line |-> <<>>]
        ELSE [lines |-> state.lines, current_line |-> current_line]

\* The body of `for word in words`: the word joins the current line; when
\* the line then exceeds 15 characters, the line without the word is
\* emitted and the word starts the next one, or, the word being alone, the
\* word is emitted by itself.
add_word(state, word) ==
    LET current_line == Append(state.current_line, word)
    IN  IF Len(join(<<" ">>, current_line)) > 15
        THEN IF Len(current_line) > 1
             THEN [lines |-> Append(state.lines, join(<<" ">>, state.current_line)),
                   current_line |-> <<word>>]
             ELSE [lines |-> Append(state.lines, word), current_line |-> <<>>]
        ELSE [lines |-> state.lines, current_line |-> current_line]

RECURSIVE add_words(_, _)
\* for word in words[:k]: ... -- the lines and the current line after the
\* first k words of a sentence.
add_words(words, k) ==
    IF k = 0 THEN [lines |-> <<>>, current_line |-> <<>>]
    ELSE add_word(add_words(words, k - 1), words[k])

\* The body of `for sentence in sentences`: the lines one sentence appends
\* to `lines`; a sentence of more than 15 characters is filled word by
\* word, the words left in current_line making its last line.
add_sentence(raw) ==
    LET sentence == strip(raw)
        words == split_words(sentence)
        state == add_words(words, Len(words))
    IN  IF sentence # <<>> /\ Len(sentence) > 15
        THEN IF state.current_line # <<>>
             THEN Append(state.lines, join(<<" ">>, state.current_line))
             ELSE state.lines
        ELSE IF sentence # <<>> THEN <<sentence>> ELSE <<>>

\* for sentence in sentences: ... -- every sentence appends its lines.
add_sentences(sentences) ==
    LET added == [k \in 1..Len(sentences) |-> add_sentence(sentences[k])] \o <<>>
    IN  Flatten(added)

add_spacing_trailing(lines) ==
    LET appended == [k \in 1..Len(lines) |->
                        IF k % 2 = 0 THEN <<lines[k], <<>>>> ELSE <<lines[k]>>] \o <<>>
    IN  Flatten(appended)

\* for i, line in enumerate(lines): formatted_lines.append(line), and an
\* empty line after it when (i + 1) % 2 == 0 and i < len(lines) - 1; the
\* k-th line is the one of index i = k - 1.
add_spacing(lines) ==
    LET appended == [k \in 1..Len(lines) |->
                        IF k % 2 = 0 /\ k - 1 < Len(lines) - 1
                        THEN <<lines[k], <<>>>> ELSE <<lines[k]>>] \o <<>>
    IN  Flatten(appended)

\* f"CORRECTLY FORMATTED VERSION:\n\n" + "\n".join(formatted_lines)
format_linkedin_post_correctly(original_content) ==
    LET sentences == Split(replace_breaks(original_content)) \o <<>>
        lines == add_sentences(sentences) \o <<>>
        formatted_lines == add_spacing(lines) \o <<>>
    IN  [header |-> "CORRECTLY FORMATTED VERSION:",
         body |-> join(<<"\n">>, formatted_lines)]

---------------------------------------------------------------------------
(* The arguments the tools are called with *)

MaxParts == 3

\* n copies of the character c
Run(c, n) == [i \in 1..n |-> c]

\* The fragments short posts are written from: one per check of the scorer
\* and of the validator, and lines on both sides of the 60 and 80 limits.
Parts == <<
    <<"?">>,
    <<"W", "h", "e", "n", " ", "I">>,
    <<"S", "t", "e", "p">>,
    <<"\n">>,
    <<"P", "S", ":">>,
    <<"p", "s", ":">>,
    <<"s", "h", "a", "r", "e">>,
    <<" ">>,
    Run("j", 59),
    Run("j", 60),
    Run("j", 80),
    Run("j", 81),
    Run(" ", 81) >>

\* Every post of at most MaxParts fragments.
ShortTexts ==
    UNION { { Flatten([k \in 1..n |-> Parts[f[k]]]) : f \in [1..n -> 1..Len(Parts)] } :
            n \in 0..MaxParts }

\* The sections a longer draft is assembled from, in this order: two long
\* lines, a first-person phrase, an action word, a question, a paragraph
\* break, a postscript and a closing paragraph break.
Sections == <<
    Run("j", 81) \o <<"\n">> \o Run("j", 81) \o <<"\n">>,
    <<"W", "h", "e", "n", " ", "I">>,
    <<"S", "t", "e", "p">>,
    <<"?">>,
    <<"\n", "\n">>,
    <<"P", ".", "S", ".">>,
    <<"\n", "\n">> >>

Draft(S) == Flatten([k \in 1..Cardinality(S) |-> Sections[Ascending(S)[k]]])

Drafts == { Draft(S) : S \in SUBSET (1..Len(Sections)) }

\* The lengths on both sides of every threshold of the tools.
TargetLens == {299, 300, 1299, 1300, 2500, 2501, 3000, 3001}

\* The draft filled up with body text to a total of n characters.
PadTo(d, n) == IF n > Len(d) THEN d \o Run("j", n - Len(d)) ELSE d

LongTexts == { PadTo(d, n) : d \in Drafts, n \in TargetLens }

\* A post written as lines with no blank line between them: a first line
\* of `first` characters, then `longs` lines of 90 characters, then lines
\* of 80 characters up to a total of n characters.
LinedText(first, longs, n) ==
    LET head == Run("j", first) \o Flatten([k \in 1..longs |-> <<"\n">> \o Run("j", 90)])
    IN  head \o [i \in 1..(n - Len(head)) |-> IF i % 81 = 1 THEN "\n" ELSE "j"]

LinedTexts == { LinedText(first, longs, n) : first \in {59, 70}, longs \in 1..3, n \in {2500, 3000} }

Texts == ShortTexts \cup Drafts \cup LongTexts \cup LinedTexts

MaxFormatParts == 3

\* The fragments the posts given to the formatter are written from: three
\* short sentences, two words, a word, a one-letter word, words of 15 and
\* of 16 characters, a space, a tab, a full stop and a newline.
FormatParts == <<
    <<"P", "l", "a", "n", ".", " ", "A", "c", "t", "!", " ", "W", "i", "n", "?", " ">>,
    <<"g", "r", "o", "w", " ", "f", "a", "s", "t", " ">>,
    <<"l", "e", "a", "d", "e", "r", "s">>,
    <<"a">>,
    Run("w", 15),
    Run("w", 16),
    <<" ">>,
    <<"\t">>,
    <<".">>,
    <<"\n">> >>

\* Every post of at most MaxFormatParts fragments.
FormatTexts ==
    UNION { { Flatten([k \in 1..n |-> FormatParts[f[k]]]) : f \in [1..n -> 1..Len(FormatParts)] } :
            n \in 0..MaxFormatParts }

MaxTopicWords == 2

TopicWords == <<
    <<"l", "e", "a", "r", "n">>,
    <<"e", "d", "u", "c", "a", "t", "i", "o", "n">>,
    <<"S", "u", "c", "c", "e", "s", "s">>,
    <<"a", "c", "h", "i", "e", "v", "e", "m", "e", "n", "t">>,
    <<"t", "e", "a", "m">>,
    <<"c", "o", "l", "l", "a", "b", "o", "r", "a", "t", "i", "o", "n">>,
    <<"T", "I", "P", "S">>,
    <<"a", "d", "v", "i", "c", "e">>,
    <<"t", "e", "a", "m", " ", "s", "u", "c", "c", "e", "s", "s", " ", "t", "i", "p", "s">>,
    <<"h", "i", "r", "i", "n", "g">>,
    <<" ">> >>

\* Every topic of at most MaxTopicWords words.
Topics ==
    UNION { { Flatten([k \in 1..n |-> TopicWords[f[k]]]) : f \in [1..n -> 1..Len(TopicWords)] } :
            n \in 0..MaxTopicWords }

\* The catalog keys in lower, mixed and upper case, the default "general",
\* an industry of no catalog and the empty string.
Industries == {
    <<"t", "e", "c", "h">>, <<"T", "e", "c", "h">>,
    <<"m", "a", "r", "k", "e", "t", "i", "n", "g">>,
    <<"l", "e", "a", "d", "e", "r", "s", "h", "i", "p">>,
    <<"e", "n", "t", "r", "e", "p", "r", "e", "n", "e", "u", "r", "s", "h", "i", "p">>,
    <<"f", "i", "n", "a", "n", "c", "e">>,
    <<"s", "a", "l", "e", "s">>,
    <<"h", "r">>, <<"H", "R">>,
    <<"c", "o", "n", "s", "u", "l", "t", "i", "n", "g">>,
    <<"g", "e", "n", "e", "r", "a", "l">>,
    <<"u", "n", "k", "n", "o", "w", "n">>,
    <<>> }

NoResult == [pending |-> TRUE]

\* Those who call the tools, each from a thread of its own.
Callers == {"caller1", "caller2"}

\* A caller that is not in a call.
NoFrame ==
    [tool |-> "none", content |-> <<>>, topic |-> <<>>, industry |-> <<>>,
     pc |-> 0, locals |-> [none |-> TRUE], overlapped |-> FALSE,
     result |-> NoResult]

NoCalls ==
    /\ frames = [c \in Callers |-> NoFrame]
    /\ returned = <<>>

\* The websockets that may connect, and the session ids of their URLs.
Connections == {"ws1", "ws2"}

SessionIds == {"s1", "s2"}

\* An exception: its class and the arguments it was constructed with.
NoException == [type |-> "", args |-> <<>>]

\* A websocket whose endpoint coroutine has not started.
NotStarted ==
    [pc |-> "not started", session_id |-> "none", received |-> 0, messages |-> 0,
     content |-> "", agent_type |-> "", agent_name |-> "", response |-> "",
     error |-> NoException, raised |-> "none", message_data |-> None, input |-> ""]

NoConnections ==
    /\ active_connections = <<>>
    /\ conversation_history = <<>>
    /\ handler = [w \in Connections |-> NotStarted]
    /\ sent = [w \in Connections |-> <<>>]
    /\ client_open = [w \in Connections |-> FALSE]

\* The HTTP clients of app.py; none has posted anything.
ChatClients == {"http1", "http2"}

NoRequest ==
    [pc |-> "idle", body |-> None, request |-> None, agent_name |-> "", input |-> "",
     status |-> 0, response |-> None]

NoChats == chat = [c \in ChatClients |-> NoRequest]

---------------------------------------------------------------------------
(* One tool call: the arguments are chosen, then one tool runs on them *)

Init ==
    /\ tool = "none"
    /\ result = NoResult
    /\ NoCalls
    /\ NoConnections
    /\ NoChats
    /\ \/ content \in Texts /\ topic = <<>> /\ industry = <<"g", "e", "n", "e", "r", "a", "l">>
       \/ content = <<>> /\ topic \in Topics /\ industry \in Industries

AnalyzePostLength ==
    /\ tool = "none"
    /\ tool' = "analyze_post_length"
    /\ result' = analyze_post_length(content)
    /\ UNCHANGED <<content, topic, industry, callvars, wsvars, chatvars>>

AnalyzePostLengthLinkedin ==
    /\ tool = "none"
    /\ tool' = "analyze_post_length_linkedin"
    /\ result' = analyze_post_length_linkedin(content)
    /\ UNCHANGED <<content, topic, industry, callvars, wsvars, chatvars>>

SuggestHashtags ==
    /\ tool = "none"
    /\ tool' = "suggest_hashtags"
    /\ result' = suggest_hashtags(topic, industry)
    /\ UNCHANGED <<content, topic, industry, callvars, wsvars, chatvars>>

SuggestHashtagsLinkedin ==
    /\ tool = "none"
    /\ tool' = "suggest_hashtags_linkedin"
    /\ result' = suggest_hashtags_linkedin(topic, industry)
    /\ UNCHANGED <<content, topic, industry, callvars, wsvars, chatvars>>

CheckEngagementPotential ==
    /\ tool = "none"
    /\ tool' = "check_engagement_potential"
    /\ result' = check_engagement_potential(content)
    /\ UNCHANGED <<content, topic, industry, callvars, wsvars, chatvars>>

ValidateLinkedinFormatting ==
    /\ tool = "none"
    /\ tool' = "validate_linkedin_formatting"
    /\ result' = validate_linkedin_formatting(content)
    /\ UNCHANGED <<content, topic, industry, callvars, wsvars, chatvars>>

FormatLinkedinPostCorrectly ==
    /\ tool = "none"
    /\ tool' = "format_linkedin_post_correctly"
    /\ result' = format_linkedin_post_correctly(content)
    /\ UNCHANGED <<content, topic, industry, callvars, wsvars, chatvars>>

Next ==
    \/ AnalyzePostLength
    \/ AnalyzePostLengthLinkedin
    \/ SuggestHashtags
    \/ SuggestHashtagsLinkedin
    \/ CheckEngagementPotential
    \/ ValidateLinkedinFormatting
    \/ FormatLinkedinPostCorrectly

Spec == Init /\ [][Next]_vars

SuggestHashtagsApp ==
    /\ tool = "none"
    /\ tool' = "suggest_hashtags_app"
    /\ result' = suggest_hashtags_app(topic, industry)
    /\ UNCHANGED <<content, topic, industry, callvars, wsvars, chatvars>>

SuggestHashtagsStreamlit ==
    /\ tool = "none"
    /\ tool' = "suggest_hashtags_streamlit"
    /\ result' = suggest_hashtags_streamlit(topic, industry)
    /\ UNCHANGED <<content, topic, industry, callvars, wsvars, chatvars>>

\* The four copies of suggest_hashtags, on the same topics and industries.
HashtagInit ==
    /\ tool = "none"
    /\ result = NoResult
    /\ NoCalls
    /\ NoConnections
    /\ NoChats
    /\ content = <<>>
    /\ topic \in Topics
    /\ industry \in Industries

HashtagNext ==
    \/ SuggestHashtags
    \/ SuggestHashtagsLinkedin
    \/ SuggestHashtagsApp
    \/ SuggestHashtagsStreamlit

HashtagSpec == HashtagInit /\ [][HashtagNext]_vars

\* The formatter alone, on posts made of words and sentences.
FormatInit ==
    /\ tool = "none"
    /\ result = NoResult
    /\ NoCalls
    /\ NoConnections
    /\ NoChats
    /\ content \in FormatTexts
    /\ topic = <<>>
    /\ industry = <<"g", "e", "n", "e", "r", "a", "l">>

FormatNext == FormatLinkedinPostCorrectly

FormatSpec == FormatInit /\ [][FormatNext]_vars

---------------------------------------------------------------------------
(* Calls of the five tools from several callers at once.  A call has a    *)
(* frame of its own: its arguments and the locals its body assigns.  The  *)
(* body runs in stages, one per check or loop of the function, and the    *)
(* stages of different callers interleave.                                *)

MaxCalls == 3

CoreTools == {"analyze_post_length", "suggest_hashtags", "check_engagement_potential",
              "format_linkedin_post_correctly", "validate_linkedin_formatting"}

\* The post, the topic and the industries the callers pass.
CallTexts == {
    <<"W", "h", "e", "n", " ", "I", "?", " ", "P", "l", "a", "n", ".", " ", "A", "c", "t", "!",
      " ", "g", "r", "o", "w", " ", "f", "a", "s", "t">> }

CallTopics == { <<"t", "e", "a", "m", " ", "t", "i", "p", "s">> }

CallIndustries == { <<"T", "e", "c", "h">>, <<"h", "r">> }

\* The checks of check_engagement_potential, in the order they run.
engagement_checks(c) ==
    <<question_check(c), personal_check(c), action_check(c), paragraph_check(c), length_check(c)>>

\* The checks of validate_linkedin_formatting, in the order they run.
formatting_checks(c) ==
    LET lines == Split(c) \o <<>>
    IN  <<line_length_check(lines), hook_check(lines), spacing_check(lines),
          cta_check(c), ps_check(c), limit_check(c)>>

\* The number of stages of a tool's body.
Stages(t) ==
    CASE t = "analyze_post_length" -> 1
      [] t = "suggest_hashtags" -> 5
      [] t = "check_engagement_potential" -> 5
      [] t = "format_linkedin_post_correctly" -> 2
      [] t = "validate_linkedin_formatting" -> 6

\* The locals of a call when its body starts: the empty lists and zero
\* scores the body assigns first, and the tables it writes out.
entry_locals(t) ==
    CASE t = "analyze_post_length" -> [length |-> 0]
      [] t = "suggest_hashtags" ->
            [general_hashtags |-> general_hashtags, industry_hashtags |-> industry_hashtags,
             suggested |-> <<>>, final_hashtags |-> <<>>]
      [] t = "check_engagement_potential" ->
            [score |-> 0, feedback |-> <<>>,
             personal_indicators |-> personal_indicators, action_words |-> action_words]
      [] t = "format_linkedin_post_correctly" -> [lines |-> <<>>, formatted_lines |-> <<>>]
      [] t = "validate_linkedin_formatting" ->
            [score |-> 0, feedback |-> <<>>, cta_indicators |-> cta_indicators]

\* The frame of a call that has just been entered.
enter(t, c, tp, ind) ==
    [tool |-> t, content |-> c, topic |-> tp, industry |-> ind,
     pc |-> 0, locals |-> entry_locals(t), overlapped |-> FALSE,
     result |-> NoResult]

hashtag_stage_aliased(l, k, tp, ind) ==
    LET key == Lower(ind)
        row == get(l.industry_hashtags, key)
        extended(items) ==
            IF key \in DOMAIN l.industry_hashtags
            THEN [l EXCEPT !.final_hashtags = @ \o items,
                           !.industry_hashtags = [@ EXCEPT ![key] = @ \o items]]
            ELSE [l EXCEPT !.final_hashtags = @ \o items]
    IN  CASE k = 1 -> [l EXCEPT !.suggested = @ \o suggested_for(Lower(tp))]
          [] k = 2 -> [l EXCEPT !.final_hashtags = row]
          [] k = 3 -> extended(Take(l.suggested, 2))
          [] k = 4 -> extended(Take(l.general_hashtags, 1))
          [] k = 5 -> [l EXCEPT !.final_hashtags = Take(FromKeys(@), 5)]

\* The k-th stage of suggest_hashtags on its locals: the keyword rules
\* extend suggested; final_hashtags is extended by two industry hashtags,
\* by two of suggested and by one general hashtag; duplicates are removed
\* and five are kept.
hashtag_stage(l, k, tp, ind) ==
    CASE k = 1 -> [l EXCEPT !.suggested = @ \o suggested_for(Lower(tp))]
      [] k = 2 -> [l EXCEPT !.final_hashtags =
                                @ \o Take(get(l.industry_hashtags, Lower(ind)), 2)]
      [] k = 3 -> [l EXCEPT !.final_hashtags = @ \o Take(l.suggested, 2)]
      [] k = 4 -> [l EXCEPT !.final_hashtags = @ \o Take(l.general_hashtags, 1)]
      [] k = 5 -> [l EXCEPT !.final_hashtags = Take(FromKeys(@), 5)]

\* The locals of a frame after its next stage.
stage(f) ==
    LET l == f.locals
        k == f.pc + 1
    IN  CASE f.tool = "analyze_post_length" -> [l EXCEPT !.length = Len(f.content)]
          [] f.tool = "suggest_hashtags" -> hashtag_stage(l, k, f.topic, f.industry)
          [] f.tool = "check_engagement_potential" ->
                [l EXCEPT !.score = @ + engagement_checks(f.content)[k].points,
                          !.feedback = @ \o engagement_checks(f.content)[k].notes]
          [] f.tool = "format_linkedin_post_correctly" ->
                IF k = 1
                THEN [l EXCEPT !.lines =
                         @ \o add_sentences(Split(replace_breaks(f.content)) \o <<>>)]
                ELSE [l EXCEPT !.formatted_lines = @ \o add_spacing(l.lines)]
          [] f.tool = "validate_linkedin_formatting" ->
                [l EXCEPT !.score = @ + formatting_checks(f.content)[k].points,
                          !.feedback = @ \o formatting_checks(f.content)[k].notes]

\* What the return statement of a frame's tool formats from its locals.
return_value(f) ==
    LET l == f.locals
    IN  CASE f.tool = "analyze_post_length" ->
                [analyze_post_length(f.content) EXCEPT !.length = l.length]
          [] f.tool = "suggest_hashtags" ->
                [label |-> "Recommended hashtags:", hashtags |-> l.final_hashtags]
          [] f.tool = "check_engagement_potential" ->
                [score |-> l.score, level |-> engagement_level(l.score),
                 feedback |-> l.feedback]
          [] f.tool = "format_linkedin_post_correctly" ->
                [header |-> "CORRECTLY FORMATTED VERSION:",
                 body |-> join(<<"\n">>, l.formatted_lines)]
          [] f.tool = "validate_linkedin_formatting" ->
                [score |-> l.score, feedback |-> l.feedback]

\* A caller is inside a call.
InCall(f) == f.tool # "none"

run_stage_shared(fs, c) ==
    LET after == stage(fs[c])
    IN  [d \in DOMAIN fs |->
            IF d = c THEN [fs[c] EXCEPT !.locals = after, !.pc = @ + 1]
            ELSE IF InCall(fs[d]) /\ fs[d].tool = fs[c].tool
                 THEN [fs[d] EXCEPT !.locals = after]
                 ELSE fs[d]]

\* The frames after caller c has run the next stage of its call: the stage
\* reads and assigns the locals of c's own frame.
run_stage(fs, c) ==
    [fs EXCEPT ![c] = [@ EXCEPT !.locals = stage(fs[c]), !.pc = @ + 1]]

\* The number of calls made so far.
CallsMade == Len(returned) + Cardinality({c \in Callers : InCall(frames[c])})

Call(c, t, text, tp, ind) ==
    /\ ~InCall(frames[c])
    /\ CallsMade < MaxCalls
    /\ frames' = [frames EXCEPT ![c] = enter(t, text, tp, ind)]
    /\ UNCHANGED <<returned, toolvars, wsvars, chatvars>>

CallTextTool(c) ==
    \E t \in CoreTools \ {"suggest_hashtags"}, text \in CallTexts :
        Call(c, t, text, <<>>, <<>>)

CallSuggestHashtags(c) ==
    \E tp \in CallTopics, ind \in CallIndustries :
        Call(c, "suggest_hashtags", <<>>, tp, ind)

RunStage(c) ==
    /\ InCall(frames[c])
    /\ frames[c].pc < Stages(frames[c].tool)
    /\ frames' = [run_stage(frames, c) EXCEPT
                     ![c].overlapped = @ \/ \E d \in Callers \ {c} :
                                               InCall(frames[d]) /\ frames[d].pc > 0]
    /\ UNCHANGED <<returned, toolvars, wsvars, chatvars>>

\* The return statement: the caller has its value and the frame is gone.
Return(c) ==
    /\ InCall(frames[c])
    /\ frames[c].pc = Stages(frames[c].tool)
    /\ frames' = [frames EXCEPT ![c] = NoFrame]
    /\ returned' = Append(returned,
           [tool |-> frames[c].tool, content |-> frames[c].content,
            topic |-> frames[c].topic, industry |-> frames[c].industry,
            result |-> return_value(frames[c])])
    /\ UNCHANGED <<toolvars, wsvars, chatvars>>

CallInit ==
    /\ tool = "none"
    /\ result = NoResult
    /\ content = <<>>
    /\ topic = <<>>
    /\ industry = <<>>
    /\ NoCalls
    /\ NoConnections
    /\ NoChats

CallNext ==
    \E c \in Callers :
        \/ CallTextTool(c)
        \/ CallSuggestHashtags(c)
        \/ RunStage(c)
        \/ Return(c)

CallSpec == CallInit /\ [][CallNext]_vars

---------------------------------------------------------------------------
(* The websocket endpoint of web_ui_server.py.  Every await of             *)
(* websocket_endpoint is a step: other connections' handlers run between  *)
(* the steps of one.                                                      *)

MaxFrames == 2

\* AGENTS, every agent denoted by its name.
AGENTS ==
    ("simple" :> "Personal Assistant")
    @@ ("advanced" :> "Assistant Coordinator")
    @@ ("math" :> "Math Specialist")
    @@ ("weather" :> "Weather Specialist")
    @@ ("time" :> "Time Keeper")
    @@ ("linkedin" :> "LinkedIn Reformatter")

simple_agent == "Personal Assistant"

agents_get_strict(agent_type) ==
    IF agent_type \in DOMAIN AGENTS THEN AGENTS[agent_type] ELSE "none"

\* AGENTS.get(agent_type, simple_agent)
agents_get(agent_type) ==
    IF agent_type \in DOMAIN AGENTS THEN AGENTS[agent_type] ELSE simple_agent

\* The texts clients send, the agent keys they name, what an agent run
\* returns and the messages of the exceptions it raises.
WsContents == {"hello"}

WsAgentKeys == {"math", "nonesuch"}

FinalOutputs == {"answer"}

RunErrors == { [type |-> "Exception", args |-> <<"agent failed">>] }

\* str(e) of an exception: the empty string without arguments, the argument
\* with one.
str(e) ==
    IF Len(e.args) = 0 THEN "" ELSE e.args[1]

\* The exception a failed send raises.
send_exception(outcome) == [type |-> outcome, args |-> <<>>]

\* What a client may send: message frames with an agent key and one
\* without, a message frame without content, a frame of another type, a
\* frame without type, and text that is not JSON.
ClientData ==
    { [valid |-> TRUE, value |-> [type |-> "message", content |-> c, agent |-> a]] :
          c \in WsContents, a \in WsAgentKeys }
    \cup { [valid |-> TRUE, value |-> [type |-> "message", content |-> "hi"]] }
    \cup { [valid |-> TRUE, value |-> [type |-> "message"]],
           [valid |-> TRUE, value |-> [type |-> "ping"]],
           [valid |-> TRUE, value |-> [content |-> "hello"]],
           [valid |-> FALSE, value |-> [type |-> "message"]] }

\* manager.disconnect: the websocket is removed from active_connections if
\* it is there.
disconnect(connections, w) == SelectSeq(connections, LAMBDA x : x # w)

\* What a send on websocket w can do: it sends; with the client gone the
\* library may also raise WebSocketDisconnect or another exception.
SendOutcomes(w) ==
    IF client_open[w] THEN {"sent"} ELSE {"sent", "WebSocketDisconnect", "RuntimeError"}

\* The handler after an exception has left the while loop: the except
\* clause of WebSocketDisconnect ends it after manager.disconnect, any other
\* exception ends it at once.
ended(h, exception) ==
    [h EXCEPT !.pc = IF exception = "WebSocketDisconnect" THEN "disconnected" ELSE "failed",
              !.raised = exception,
              !.content = "", !.agent_type = "", !.agent_name = "",
              !.response = "", !.error = NoException,
              !.message_data = None, !.input = ""]

\* The handler back at the head of the while loop, the locals of the last
\* iteration no longer read.
next_iteration(h) ==
    [h EXCEPT !.pc = "receive",
              !.content = "", !.agent_type = "", !.agent_name = "",
              !.response = "", !.error = NoException,
              !.message_data = None, !.input = ""]

\* The connections after an exception has left the while loop.
connections_after(connections, w, exception) ==
    IF exception = "WebSocketDisconnect" THEN disconnect(connections, w) ELSE connections

RECURSIVE Sum(_, _)
\* The sum of f over the finite set S.
Sum(f, S) ==
    IF S = {} THEN 0
    ELSE LET x == CHOOSE y \in S : TRUE IN f[x] + Sum(f, S \ {x})

\* The number of frames the server has received, on all websockets.
FramesReceived == Sum([w \in Connections |-> handler[w].received], Connections)

history_for_fresh(history, session_id) ==
    [s \in DOMAIN history \cup {session_id} |-> IF s = session_id THEN <<>> ELSE history[s]]

\* if session_id not in self.conversation_history:
\*     self.conversation_history[session_id] = []
history_for(history, session_id) ==
    IF session_id \in DOMAIN history THEN history ELSE history @@ (session_id :> <<>>)

\* await manager.connect(websocket, session_id)
Connect(w, session_id) ==
    /\ handler[w].pc = "not started"
    /\ active_connections' = Append(active_connections, w)
    /\ conversation_history' = history_for(conversation_history, session_id)
    /\ handler' = [handler EXCEPT ![w].pc = "receive", ![w].session_id = session_id]
    /\ client_open' = [client_open EXCEPT ![w] = TRUE]
    /\ UNCHANGED <<sent, toolvars, callvars, chatvars>>

\* The client closes its end.
ClientCloses(w) ==
    /\ handler[w].pc \notin {"not started", "disconnected", "failed"}
    /\ client_open[w]
    /\ client_open' = [client_open EXCEPT ![w] = FALSE]
    /\ UNCHANGED <<active_connections, conversation_history, handler, sent, toolvars, callvars, chatvars>>

\* data = await websocket.receive_text() ... up to the await that sends
\* the thinking frame.
Receive(w, data) ==
    LET message_data == data.value
        h == [handler[w] EXCEPT !.received = @ + 1,
                                !.message_data = IF data.valid THEN message_data ELSE None]
    IN  /\ handler[w].pc = "receive"
        /\ client_open[w]
        /\ FramesReceived < MaxFrames
        /\ IF ~data.valid
           THEN /\ handler' = [handler EXCEPT ![w] = ended(h, "JSONDecodeError")]
                /\ UNCHANGED conversation_history
           ELSE IF "type" \notin DOMAIN message_data
           THEN /\ handler' = [handler EXCEPT ![w] = ended(h, "KeyError")]
                /\ UNCHANGED conversation_history
           ELSE IF message_data.type # "message"
           THEN /\ handler' = [handler EXCEPT ![w] = next_iteration(h)]
                /\ UNCHANGED conversation_history
           ELSE IF "content" \notin DOMAIN message_data
           THEN /\ handler' = [handler EXCEPT ![w] = ended(h, "KeyError")]
                /\ UNCHANGED conversation_history
           ELSE /\ handler' = [handler EXCEPT ![w] =
                      [h EXCEPT !.pc = "send thinking",
                                !.messages = @ + 1,
                                !.content = message_data.content,
                                !.agent_type = IF "agent" \in DOMAIN message_data
                                               THEN message_data.agent ELSE "simple"]]
                /\ conversation_history' =
                      [conversation_history EXCEPT ![h.session_id] =
                          Append(@, [role |-> "user", content |-> message_data.content])]
        /\ UNCHANGED <<active_connections, sent, client_open, toolvars, callvars, chatvars>>

\* await websocket.receive_text() with the client gone: WebSocketDisconnect.
ReceiveDisconnect(w) ==
    /\ handler[w].pc = "receive"
    /\ ~client_open[w]
    /\ handler' = [handler EXCEPT ![w] = ended(handler[w], "WebSocketDisconnect")]
    /\ active_connections' = disconnect(active_connections, w)
    /\ UNCHANGED <<conversation_history, sent, client_open, toolvars, callvars, chatvars>>

start_run_on_history(h) ==
    [h EXCEPT !.pc = "run",
              !.agent_name = agents_get(h.agent_type),
              !.input = conversation_history[h.session_id][1].content]

\* agent = AGENTS.get(agent_type, simple_agent) and the call of
\* Runner.run(agent, content), up to its await.
start_run(h) ==
    [h EXCEPT !.pc = "run",
              !.agent_name = agents_get(h.agent_type),
              !.input = h.content]

\* await manager.send_message(websocket, {"type": "thinking"}), then the
\* agent is looked up and its run is started.
SendThinking(w) ==
    /\ handler[w].pc = "send thinking"
    /\ \E outcome \in SendOutcomes(w) :
          IF outcome = "sent"
          THEN /\ sent' = [sent EXCEPT ![w] = Append(@, [type |-> "thinking"])]
               /\ handler' = [handler EXCEPT ![w] = start_run(handler[w])]
               /\ UNCHANGED active_connections
          ELSE /\ handler' = [handler EXCEPT ![w] = ended(handler[w], outcome)]
               /\ active_connections' = connections_after(active_connections, w, outcome)
               /\ UNCHANGED sent
    /\ UNCHANGED <<conversation_history, client_open, toolvars, callvars, chatvars>>

run_raised_unreported(h, e) == next_iteration(h)

run_raised_ending(h, e) == ended(h, e.type)

\* except Exception as e: the handler goes on to send the error frame.
run_raised(h, e) == [h EXCEPT !.pc = "send error", !.error = e]

\* result = await Runner.run(agent, content) returns: the response is
\* appended to the history and the response frame is sent next.
RunReturns(w) ==
    /\ handler[w].pc = "run"
    /\ \E final_output \in FinalOutputs :
          /\ handler' = [handler EXCEPT ![w].pc = "send response",
                                        ![w].response = final_output]
          /\ conversation_history' =
                [conversation_history EXCEPT ![handler[w].session_id] =
                    Append(@, [role |-> "assistant", content |-> final_output])]
    /\ UNCHANGED <<active_connections, sent, client_open, toolvars, callvars, chatvars>>

\* result = await Runner.run(agent, content) raises.
RunRaises(w) ==
    /\ handler[w].pc = "run"
    /\ \E e \in RunErrors :
          handler' = [handler EXCEPT ![w] = run_raised(handler[w], e)]
    /\ UNCHANGED <<active_connections, conversation_history, sent, client_open,
                   toolvars, callvars, chatvars>>

\* await manager.send_message(websocket, {"type": "response", ...}); an
\* exception of the send is caught by except Exception.
SendResponse(w) ==
    /\ handler[w].pc = "send response"
    /\ \E outcome \in SendOutcomes(w) :
          IF outcome = "sent"
          THEN /\ sent' = [sent EXCEPT ![w] =
                      Append(@, [type |-> "response", message |-> handler[w].response,
                                 agent_name |-> handler[w].agent_name])]
               /\ handler' = [handler EXCEPT ![w] = next_iteration(handler[w])]
          ELSE /\ handler' = [handler EXCEPT ![w] = run_raised(handler[w], send_exception(outcome))]
               /\ UNCHANGED sent
    /\ UNCHANGED <<active_connections, conversation_history, client_open, toolvars, callvars, chatvars>>

\* await manager.send_message(websocket, {"type": "error", ...}) in the
\* except clause; an exception of this send leaves the while loop.
SendError(w) ==
    /\ handler[w].pc = "send error"
    /\ \E outcome \in SendOutcomes(w) :
          IF outcome = "sent"
          THEN /\ sent' = [sent EXCEPT ![w] =
                      Append(@, [type |-> "error", message |-> str(handler[w].error)])]
               /\ handler' = [handler EXCEPT ![w] = next_iteration(handler[w])]
               /\ UNCHANGED active_connections
          ELSE /\ handler' = [handler EXCEPT ![w] = ended(handler[w], outcome)]
               /\ active_connections' = connections_after(active_connections, w, outcome)
               /\ UNCHANGED sent
    /\ UNCHANGED <<conversation_history, client_open, toolvars, callvars, chatvars>>

WsInit ==
    /\ tool = "none"
    /\ result = NoResult
    /\ content = <<>>
    /\ topic = <<>>
    /\ industry = <<>>
    /\ NoCalls
    /\ NoConnections
    /\ NoChats

\* Websockets and session ids are names: the websockets connect in the
\* order ws1, ws2, and a client names a session that has a history or the
\* first that has none.
MayConnect(w) == w = "ws1" \/ handler["ws1"].pc # "not started"

SessionChoices ==
    IF conversation_history = <<>> THEN {"s1"} ELSE SessionIds

\* A step of one handler: the event loop runs a coroutine that can go on.
HandlerStep(w) ==
    \/ \E data \in ClientData : Receive(w, data)
    \/ ReceiveDisconnect(w)
    \/ SendThinking(w)
    \/ RunReturns(w)
    \/ RunRaises(w)
    \/ SendResponse(w)
    \/ SendError(w)

WsNext ==
    \E w \in Connections :
        \/ MayConnect(w) /\ \E session_id \in SessionChoices : Connect(w, session_id)
        \/ ClientCloses(w)
        \/ HandlerStep(w)

WsSpec == WsInit /\ [][WsNext]_vars

\* The event loop resumes every handler whose await has completed, and an
\* agent run ends, by returning or by raising.
WsFairSpec ==
    /\ WsSpec
    /\ \A w \in Connections :
          /\ WF_vars(SendThinking(w))
          /\ WF_vars(RunReturns(w) \/ RunRaises(w))
          /\ WF_vars(SendResponse(w))
          /\ WF_vars(SendError(w))

---------------------------------------------------------------------------
(* calculate (web_ui_server.py, advanced_agent_example.py, streamlit_ui.py) *)
(* and the part of Python's eval it can reach: expressions of numbers,      *)
(* + - * / ** //, parentheses, the empty tuple () and the ellipsis ...      *)
(* A float is denoted by the rational number its literal and its            *)
(* operations give; rounding is not modelled, so the last digits of a       *)
(* float result, and the floor of a quotient such as 1//.1, can differ.     *)

MaxExprLen == 4

\* The characters expressions are made of: some that calculate allows, a
\* space, and a letter.
ExprChars == <<"0", "1", "+", "-", "*", "/", "(", ")", ".", " ", "x">>

\* The expression of n characters that f picks.
Expression(n, f) == [k \in 1..n |-> ExprChars[f[k]]] \o <<>>

\* allowed_chars = set('0123456789+-*/.()')
allowed_chars ==
    {"0", "1", "2", "3", "4", "5", "6", "7", "8", "9", "+", "-", "*", "/", ".", "(", ")"}

allowed_any(c) == TRUE

\* c in allowed_chars or c.isspace()
allowed(c) == c \in allowed_chars \/ c \in Whitespace

Digits == {"0", "1", "2", "3", "4", "5", "6", "7", "8", "9"}

DigitValue(c) == CHOOSE d \in 0..9 : <<"0", "1", "2", "3", "4", "5", "6", "7", "8", "9">>[d + 1] = c

RECURSIVE digits_end(_, _)
\* The index after the digits of s that start at i.
digits_end(s, i) ==
    IF i <= Len(s) /\ s[i] \in Digits THEN digits_end(s, i + 1) ELSE i

RECURSIVE decimal(_, _, _)
\* The number the digits s[i], ..., s[j - 1] denote.
decimal(s, i, j) ==
    IF j <= i THEN 0 ELSE 10 * decimal(s, i, j - 1) + DigitValue(s[j - 1])

RECURSIVE power(_, _)
\* a to the n, n a natural number.
power(a, n) == IF n = 0 THEN 1 ELSE a * power(a, n - 1)

\* A value of the evaluation: an int, a float num / den, the empty tuple,
\* the ellipsis, or the exception that was raised instead.
Value(k, num, den) == [k |-> k, num |-> num, den |-> den, exc |-> ""]

Raised(exception) == [k |-> "exception", num |-> 0, den |-> 1, exc |-> exception]

\* A token: an operator or bracket, a number with its value, a name, or
\* text that is no token.
Token(t) == [t |-> t, v |-> Value("none", 0, 1), next |-> 0]

\* The number token at s[i]: digits, then possibly a point and digits; an
\* integer with a leading zero is no token unless it is all zeros.
number_token(s, i) ==
    LET j == digits_end(s, i)
    IN  IF j <= Len(s) /\ s[j] = "."
        THEN LET k == digits_end(s, j + 1)
                 den == power(10, k - j - 1)
             IN  [t |-> "num",
                  v |-> Value("float", decimal(s, i, j) * den + decimal(s, j + 1, k), den),
                  next |-> k]
        ELSE IF s[i] = "0" /\ j - i > 1 /\ decimal(s, i, j) # 0
        THEN [Token("bad") EXCEPT !.next = j]
        ELSE [t |-> "num", v |-> Value("int", decimal(s, i, j), 1), next |-> j]

RECURSIVE name_end(_, _)
\* The index after the name of s that starts at i.
name_end(s, i) ==
    IF i <= Len(s) /\ ~(s[i] \in allowed_chars \ Digits) /\ s[i] \notin Whitespace
    THEN name_end(s, i + 1) ELSE i

\* The token of s that starts at the non-blank s[i].
token_at(s, i) ==
    LET c == s[i]
        c1 == IF i + 1 <= Len(s) THEN s[i + 1] ELSE ""
        c2 == IF i + 2 <= Len(s) THEN s[i + 2] ELSE ""
    IN  IF c \in Digits THEN number_token(s, i)
        ELSE IF c = "."
        THEN IF c1 \in Digits THEN number_token(s, i)
             ELSE IF c1 = "." /\ c2 = "." THEN [Token("...") EXCEPT !.next = i + 3]
             ELSE [Token("bad") EXCEPT !.next = i + 1]
        ELSE IF c \in {"*", "/"} /\ c1 = c
        THEN [t |-> IF c = "*" THEN "**" ELSE "//", v |-> Value("none", 0, 1), next |-> i + 2]
        ELSE IF c \in allowed_chars THEN [Token(c) EXCEPT !.next = i + 1]
        ELSE [Token("name") EXCEPT !.next = name_end(s, i)]

RECURSIVE tokens(_, _)
\* The tokens of s from index i on.
tokens(s, i) ==
    IF i > Len(s) THEN <<>>
    ELSE IF s[i] \in Whitespace THEN tokens(s, i + 1)
    ELSE LET tok == token_at(s, i) IN <<tok>> \o tokens(s, tok.next)

IsNumber(v) == v.k \in {"int", "float"}

IsException(v) == v.k = "exception"

BothInt(a, b) == a.k = "int" /\ b.k = "int"

Abs(n) == IF n < 0 THEN 0 - n ELSE n

\* a / b and a // b
divide(op, a, b) ==
    IF b.num = 0 THEN Raised("ZeroDivisionError")
    ELSE LET num == IF b.num < 0 THEN 0 - a.num * b.den ELSE a.num * b.den
             den == a.den * Abs(b.num)
         IN  IF op = "/" THEN Value("float", num, den)
             ELSE Value(IF BothInt(a, b) THEN "int" ELSE "float", num \div den, 1)

\* a ** b
pow(a, b) ==
    IF b.num % b.den = 0
    THEN LET n == b.num \div b.den
         IN  IF n >= 0
             THEN Value(IF BothInt(a, b) THEN "int" ELSE "float", power(a.num, n), power(a.den, n))
             ELSE IF a.num = 0 THEN Raised("ZeroDivisionError")
             ELSE Value("float",
                        IF a.num < 0 THEN power(0 - a.den, 0 - n) ELSE power(a.den, 0 - n),
                        power(Abs(a.num), 0 - n))
    ELSE IF a.num = 0
    THEN IF b.num < 0 THEN Raised("ZeroDivisionError") ELSE Value("float", 0, 1)
    ELSE IF a.num = a.den THEN Value("float", 1, 1)
    ELSE Raised("NotComputed")

\* The value of a op b, the operands evaluated left to right.
binary(op, a, b) ==
    IF IsException(a) THEN a
    ELSE IF IsException(b) THEN b
    ELSE IF IsNumber(a) /\ IsNumber(b)
    THEN IF op = "+"
         THEN Value(IF BothInt(a, b) THEN "int" ELSE "float",
                    a.num * b.den + b.num * a.den, a.den * b.den)
         ELSE IF op = "-"
         THEN Value(IF BothInt(a, b) THEN "int" ELSE "float",
                    a.num * b.den - b.num * a.den, a.den * b.den)
         ELSE IF op = "*"
         THEN Value(IF BothInt(a, b) THEN "int" ELSE "float", a.num * b.num, a.den * b.den)
         ELSE IF op \in {"/", "//"} THEN divide(op, a, b)
         ELSE pow(a, b)
    ELSE IF op = "+" /\ a.k = "tuple" /\ b.k = "tuple" THEN a
    ELSE IF op = "*" /\ a.k = "tuple" /\ b.k = "int" THEN a
    ELSE IF op = "*" /\ a.k = "int" /\ b.k = "tuple" THEN b
    ELSE Raised("TypeError")

\* The value of + a and of - a.
unary(op, a) ==
    IF IsException(a) THEN a
    ELSE IF ~IsNumber(a) THEN Raised("TypeError")
    ELSE IF op = "-" THEN Value(a.k, 0 - a.num, a.den)
    ELSE a

\* The value of f(argument): nothing here can be called.
call(f, argument) ==
    IF IsException(f) THEN f
    ELSE IF IsException(argument) THEN argument
    ELSE Raised("TypeError")

\* What parsing from a token on gives: the value and the index of the token
\* after it, or no parse.
Parsed(v, pos) == [ok |-> TRUE, v |-> v, pos |-> pos]

NoParse == [ok |-> FALSE, v |-> Value("none", 0, 1), pos |-> 0]

Is(toks, i, ts) == i <= Len(toks) /\ toks[i].t \in ts

RECURSIVE parse(_, _, _)
\* The parse of one grammar rule on the tokens toks: for the rules "sum",
\* "term", "factor", "power", "primary" and "atom" from the token of index x
\* on, for the rules "sum_rest", "term_rest" and "primary_rest" after the
\* parsed left part x.
\*   sum:     sum ('+' | '-') term | term
\*   term:    term ('*' | '/' | '//') factor | factor
\*   factor:  ('+' | '-') factor | power
\*   power:   primary ['**' factor]
\*   primary: primary '(' [argument] ')' | atom
\*   atom:    NUMBER | NAME | '...' | '(' ')' | '(' sum ')'
parse(rule, toks, x) ==
    CASE rule = "sum" ->
            LET l == parse("term", toks, x)
            IN  IF l.ok THEN parse("sum_rest", toks, l) ELSE NoParse
      [] rule = "sum_rest" ->
            IF Is(toks, x.pos, {"+", "-"})
            THEN LET r == parse("term", toks, x.pos + 1)
                 IN  IF r.ok
                     THEN parse("sum_rest", toks,
                                Parsed(binary(toks[x.pos].t, x.v, r.v), r.pos))
                     ELSE NoParse
            ELSE x
      [] rule = "term" ->
            LET l == parse("factor", toks, x)
            IN  IF l.ok THEN parse("term_rest", toks, l) ELSE NoParse
      [] rule = "term_rest" ->
            IF Is(toks, x.pos, {"*", "/", "//"})
            THEN LET r == parse("factor", toks, x.pos + 1)
                 IN  IF r.ok
                     THEN parse("term_rest", toks,
                                Parsed(binary(toks[x.pos].t, x.v, r.v), r.pos))
                     ELSE NoParse
            ELSE x
      [] rule = "factor" ->
            IF Is(toks, x, {"+", "-"})
            THEN LET f == parse("factor", toks, x + 1)
                 IN  IF f.ok THEN Parsed(unary(toks[x].t, f.v), f.pos) ELSE NoParse
            ELSE parse("power", toks, x)
      [] rule = "power" ->
            LET p == parse("primary", toks, x)
            IN  IF p.ok /\ Is(toks, p.pos, {"**"})
                THEN LET f == parse("factor", toks, p.pos + 1)
                     IN  IF f.ok THEN Parsed(binary("**", p.v, f.v), f.pos) ELSE NoParse
                ELSE p
      [] rule = "primary" ->
            LET a == parse("atom", toks, x)
            IN  IF a.ok THEN parse("primary_rest", toks, a) ELSE NoParse
      [] rule = "primary_rest" ->
            IF Is(toks, x.pos, {"("})
            THEN IF Is(toks, x.pos + 1, {")"})
                 THEN parse("primary_rest", toks,
                            Parsed(call(x.v, Value("none", 0, 1)), x.pos + 2))
                 ELSE LET first == IF Is(toks, x.pos + 1, {"*", "**"})
                                   THEN x.pos + 2 ELSE x.pos + 1
                          argument == parse("sum", toks, first)
                      IN  IF argument.ok /\ Is(toks, argument.pos, {")"})
                          THEN parse("primary_rest", toks,
                                     Parsed(call(x.v, argument.v), argument.pos + 1))
                          ELSE NoParse
            ELSE x
      [] OTHER ->
            IF Is(toks, x, {"num"}) THEN Parsed(toks[x].v, x + 1)
            ELSE IF Is(toks, x, {"name"}) THEN Parsed(Raised("NameError"), x + 1)
            ELSE IF Is(toks, x, {"..."}) THEN Parsed(Value("ellipsis", 0, 1), x + 1)
            ELSE IF Is(toks, x, {"("})
            THEN IF Is(toks, x + 1, {")"}) THEN Parsed(Value("tuple", 0, 1), x + 2)
                 ELSE LET e == parse("sum", toks, x + 1)
                      IN  IF e.ok /\ Is(toks, e.pos, {")"})
                          THEN Parsed(e.v, e.pos + 1) ELSE NoParse
            ELSE NoParse

\* eval(expression): the whole text is parsed before anything is evaluated,
\* so a syntax error comes before every other exception.
eval(expression) ==
    LET toks == tokens(expression, 1) \o <<>>
        e == parse("sum", toks, 1)
    IN  IF \E i \in 1..Len(toks) : toks[i].t = "bad" THEN Raised("SyntaxError")
        ELSE IF e.ok /\ e.pos = Len(toks) + 1 THEN e.v
        ELSE Raised("SyntaxError")

\* The exception classes derived from Exception.
Exceptions ==
    {"SyntaxError", "ZeroDivisionError", "TypeError", "NameError", "OverflowError",
     "ValueError", "MemoryError", "RecursionError", "NotComputed"}

\* except Exception
except_Exception(exception) == exception \in Exceptions

\* calculate(expression)
calculate(expression) ==
    IF ~(\A i \in 1..Len(expression) : allowed(expression[i]))
    THEN [error |-> "Error: Only basic mathematical operations are allowed"]
    ELSE LET value == eval(expression)
         IN  IF ~IsException(value) THEN [header |-> "Result", result |-> value]
             ELSE IF except_Exception(value.exc)
             THEN [error |-> "Error calculating", expression |-> expression,
                   exception |-> value.exc]
             ELSE [raised |-> value.exc]

Calculate ==
    /\ tool = "none"
    /\ tool' = "calculate"
    /\ result' = calculate(content)
    /\ UNCHANGED <<content, topic, industry, callvars, wsvars, chatvars>>

CalcInit ==
    /\ tool = "none"
    /\ result = NoResult
    /\ NoCalls
    /\ NoConnections
    /\ NoChats
    /\ \E n \in 0..MaxExprLen :
          \E f \in [1..n -> 1..Len(ExprChars)] : content = Expression(n, f)
    /\ topic = <<>>
    /\ industry = <<>>

CalcNext == Calculate

CalcSpec == CalcInit /\ [][CalcNext]_vars

---------------------------------------------------------------------------
(* POST /chat of app.py, next to one websocket connection of               *)
(* web_ui_server.py: the two ways a chat message reaches an agent.         *)

\* AGENTS of app.py, every agent denoted by its name.
AGENTS_app ==
    ("simple" :> "Personal Assistant")
    @@ ("linkedin" :> "LinkedIn Reformatter")

\* AGENTS.get(request.agent, simple_agent) in app.py
agents_get_app(agent) ==
    IF agent \in DOMAIN AGENTS_app THEN AGENTS_app[agent] ELSE simple_agent

\* The JSON bodies clients post: with an agent key of AGENTS, with another
\* one, and without.
ChatBodies ==
    { [message |-> "hello", agent |-> a] : a \in {"linkedin", "math"} }
    \cup { [message |-> "hello"] }

\* class ChatRequest: agent defaults to "simple".
ChatRequest(body) ==
    [message |-> body.message,
     agent |-> IF "agent" \in DOMAIN body THEN body.agent ELSE "simple"]

\* chat_with_agent up to the await of Runner.run.
Chat(c, body) ==
    LET request == ChatRequest(body)
    IN  /\ chat[c].pc \in {"idle", "responded"}
        /\ chat' = [chat EXCEPT ![c] =
              [NoRequest EXCEPT !.pc = "run", !.body = body, !.request = request,
                                !.agent_name = agents_get_app(request.agent),
                                !.input = request.message]]
        /\ UNCHANGED <<toolvars, callvars, wsvars>>

\* Runner.run returns: ChatResponse(response, agent_name).
ChatRunReturns(c) ==
    /\ chat[c].pc = "run"
    /\ \E final_output \in FinalOutputs :
          chat' = [chat EXCEPT ![c].pc = "responded", ![c].status = 200,
                               ![c].response = [response |-> final_output,
                                                agent_name |-> chat[c].agent_name]]
    /\ UNCHANGED <<toolvars, callvars, wsvars>>

\* Runner.run raises: HTTPException(status_code=500, detail=str(e)).
ChatRunRaises(c) ==
    /\ chat[c].pc = "run"
    /\ \E e \in RunErrors :
          chat' = [chat EXCEPT ![c].pc = "responded", ![c].status = 500,
                               ![c].response = [detail |-> str(e)]]
    /\ UNCHANGED <<toolvars, callvars, wsvars>>

\* The websocket connection that is served next to the HTTP clients.
ChatConnection == "ws1"

ChatInit == WsInit

ChatNext ==
    \/ \E c \in ChatClients :
          \/ \E body \in ChatBodies : Chat(c, body)
          \/ ChatRunReturns(c)
          \/ ChatRunRaises(c)
    \/ \E session_id \in SessionChoices : Connect(ChatConnection, session_id)
    \/ ClientCloses(ChatConnection)
    \/ HandlerStep(ChatConnection)

ChatSpec == ChatInit /\ [][ChatNext]_vars

---------------------------------------------------------------------------
(* Claims *)

\* C1: under the 2500-character scheme a text of length n is TOO SHORT when
\* n < 300, PERFECT LENGTH when 300 <= n <= 2500 and TOO LONG when n > 2500.
C1_SchemeA ==
    tool = "analyze_post_length" =>
        /\ result.length = Len(content)
        /\ (Len(content) < 300) <=> (result.verdict = "TOO SHORT")
        /\ (300 <= Len(content) /\ Len(content) <= 2500) <=> (result.verdict = "PERFECT LENGTH")
        /\ (Len(content) > 2500) <=> (result.verdict = "TOO LONG")

C1_Witness ==
    /\ tool = "analyze_post_length"
    /\ Len(content) = 2500
    /\ result.verdict = "PERFECT LENGTH"

\* C2: under the 1300-3000 scheme a text of length n is TOO SHORT when
\* n < 300, SHORT when 300 <= n < 1300, OPTIMAL LENGTH when
\* 1300 <= n <= 3000 and TOO LONG when n > 3000; exactly one bucket applies.
C2_SchemeB ==
    tool = "analyze_post_length_linkedin" =>
        /\ result.length = Len(content)
        /\ (Len(content) < 300) <=> (result.verdict = "TOO SHORT")
        /\ (300 <= Len(content) /\ Len(content) < 1300) <=> (result.verdict = "SHORT")
        /\ (1300 <= Len(content) /\ Len(content) <= 3000) <=> (result.verdict = "OPTIMAL LENGTH")
        /\ (Len(content) > 3000) <=> (result.verdict = "TOO LONG")
        /\ result.verdict \in {"TOO SHORT", "SHORT", "OPTIMAL LENGTH", "TOO LONG"}

C2_Witness ==
    /\ tool = "analyze_post_length_linkedin"
    /\ Len(content) = 1300
    /\ result.verdict = "OPTIMAL LENGTH"

(* The hashtag tools, the catalog each looks the industry up in, and the
   hashtags its keyword rules give the topic. *)
HashtagTools == {"suggest_hashtags", "suggest_hashtags_linkedin"}

CatalogOf(t) ==
    IF t = "suggest_hashtags_linkedin" THEN industry_hashtags_linkedin ELSE industry_hashtags

IndustryKnown == Lower(industry) \in DOMAIN CatalogOf(tool)

TopicMatched == suggested_for(Lower(topic))

Range(s) == {s[i] : i \in 1..Len(s)}

\* C3: suggest_hashtags returns at most 5 hashtags and none of them twice.
C3_AtMostFiveUnique ==
    tool \in HashtagTools =>
        /\ Len(result.hashtags) <= 5
        /\ \A i, j \in 1..Len(result.hashtags) :
               result.hashtags[i] = result.hashtags[j] => i = j

C3_Witness ==
    /\ tool \in HashtagTools
    /\ IndustryKnown
    /\ Len(TopicMatched) > 3
    /\ Len(result.hashtags) = 5

\* C4: the result is the first 2 catalog entries of the industry (none for
\* an unknown industry), then the first 2 topic-matched hashtags, then the
\* first general hashtag, first occurrences only and at most 5; industry
\* entries precede topic entries, which precede the general entry, and
\* nothing is padded.  (No hashtag of the catalogs, of the keyword rules and
\* of the general list is shared by two of the three parts and the parts hold
\* at most 2 + 2 + 1 entries, so the result is the plain concatenation.)
C4_Composition ==
    tool \in HashtagTools =>
        LET fromIndustry ==
                IF IndustryKnown
                THEN <<CatalogOf(tool)[Lower(industry)][1], CatalogOf(tool)[Lower(industry)][2]>>
                ELSE <<>>
            fromTopic ==
                IF Len(TopicMatched) >= 2 THEN <<TopicMatched[1], TopicMatched[2]>> ELSE TopicMatched
            h == result.hashtags
        IN  /\ h = fromIndustry \o fromTopic \o <<"#LinkedIn">>
            /\ \A i, j \in 1..Len(h) :
                   /\ (h[i] \in Range(fromIndustry) /\ h[j] \in Range(fromTopic)) => i < j
                   /\ (h[i] \in Range(fromTopic) /\ h[j] = "#LinkedIn") => i < j
            /\ (~IndustryKnown /\ TopicMatched = <<>>) => Len(h) <= 1

C4_Witness ==
    /\ tool = "suggest_hashtags_linkedin"
    /\ topic = <<"t", "e", "a", "m", " ", "s", "u", "c", "c", "e", "s", "s", " ", "t", "i", "p", "s">>
    /\ industry = <<"T", "e", "c", "h">>
    /\ result.hashtags = <<"#Technology", "#Innovation", "#Success", "#Achievement", "#LinkedIn">>

\* C5 as claimed: with an industry of no catalog and a topic that matches
\* no keyword rule, the result holds no hashtag.
C5_EmptyResult ==
    (tool \in HashtagTools /\ ~IndustryKnown /\ TopicMatched = <<>>) =>
        result.hashtags = <<>>

\* C5 as amended: with an industry of no catalog and a topic that matches no
\* keyword rule the call returns (it does not raise), the industry and the
\* topic contribute no hashtag, and the result is the one general hashtag.
C5_GeneralFallbackOnly ==
    (tool \in HashtagTools /\ ~IndustryKnown /\ TopicMatched = <<>>) =>
        /\ result # NoResult
        /\ result.hashtags = <<"#LinkedIn">>

C5_Witness ==
    /\ tool = "suggest_hashtags"
    /\ industry = <<"h", "r">>
    /\ topic = <<"h", "i", "r", "i", "n", "g">>
    /\ result.hashtags = <<"#LinkedIn">>

(* The five checks of the engagement scorer, stated on the content. *)
HasQuestionMark == \E i \in 1..Len(content) : content[i] = "?"

HasFirstPersonPhrase ==
    AnyIn([n \in 1..Len(personal_indicators) |-> Lower(personal_indicators[n])], Lower(content))

HasActionWord == AnyIn(action_words, Lower(content))

HasDoubleNewline ==
    \E i \in 1..(Len(content) - 1) : content[i] = "\n" /\ content[i + 1] = "\n"

LengthInWindow == 1300 <= Len(content) /\ Len(content) <= 3000

Weight(passes, w) == IF passes THEN w ELSE 0

\* C6: the engagement score is the sum of the weights of the checks that
\* pass (question mark 20, first-person phrase 25, action word 20, double
\* newline 15, length in [1300, 3000] 20); all five passing give 100 and
\* HIGH, the empty string gives 0 and LOW.
C6_ScoreIsSumOfWeights ==
    tool = "check_engagement_potential" =>
        /\ result.score = Weight(HasQuestionMark, 20) + Weight(HasFirstPersonPhrase, 25)
                          + Weight(HasActionWord, 20) + Weight(HasDoubleNewline, 15)
                          + Weight(LengthInWindow, 20)
        /\ (HasQuestionMark /\ HasFirstPersonPhrase /\ HasActionWord /\ HasDoubleNewline
            /\ LengthInWindow) => (result.score = 100 /\ result.level = "HIGH")
        /\ content = <<>> => (result.score = 0 /\ result.level = "LOW")

C6_Witness ==
    /\ tool = "check_engagement_potential"
    /\ HasQuestionMark /\ HasFirstPersonPhrase /\ HasActionWord /\ HasDoubleNewline
    /\ Len(content) = 1300
    /\ result.score = 100
    /\ result.level = "HIGH"

\* C7: the scorer emits exactly 5 feedback entries, one per check, in the
\* order question, personal experience, actionable content, paragraph
\* breaks, length, whether the check passes or fails.
C7_FiveFeedbackEntries ==
    tool = "check_engagement_potential" =>
        /\ Len(result.feedback) = 5
        /\ result.feedback[1] =
              (IF HasQuestionMark THEN "[OK] Contains questions (encourages comments)"
               ELSE "[X] No questions found - add questions to encourage engagement")
        /\ result.feedback[2] =
              (IF HasFirstPersonPhrase THEN "[OK] Includes personal experience (builds connection)"
               ELSE "[!] Consider adding personal experience or story")
        /\ result.feedback[3] =
              (IF HasActionWord THEN "[OK] Contains actionable content"
               ELSE "[!] Consider adding actionable tips or insights")
        /\ result.feedback[4] =
              (IF HasDoubleNewline THEN "[OK] Good paragraph breaks"
               ELSE "[X] Needs better paragraph formatting")
        /\ result.feedback[5] =
              (IF LengthInWindow THEN "[OK] Optimal length" ELSE "[X] Length needs adjustment")

C7_Witness ==
    /\ tool = "check_engagement_potential"
    /\ HasQuestionMark /\ ~HasFirstPersonPhrase /\ ~HasActionWord /\ HasDoubleNewline
    /\ ~LengthInWindow
    /\ Len(result.feedback) = 5

\* C8: the engagement score is an integer from 0 to 100; it never exceeds 100.
C8_ScoreWithinRange ==
    tool = "check_engagement_potential" =>
        result.score \in 0..100

C8_Witness ==
    /\ tool = "check_engagement_potential"
    /\ Len(content) = 3000
    /\ result.score = 100

\* C9: the level is HIGH when score >= 80, MEDIUM-HIGH when
\* 60 <= score < 80, MEDIUM when 40 <= score < 60 and LOW when score < 40.
C9_LevelMapping ==
    tool = "check_engagement_potential" =>
        /\ result.score >= 80 => result.level = "HIGH"
        /\ (60 <= result.score /\ result.score < 80) => result.level = "MEDIUM-HIGH"
        /\ (40 <= result.score /\ result.score < 60) => result.level = "MEDIUM"
        /\ result.score < 40 => result.level = "LOW"

C9_Witness ==
    /\ tool = "check_engagement_potential"
    /\ result.score = 80
    /\ result.level = "HIGH"

(* The six checks of the formatting validator, stated on the content. *)
ContentLines == Split(content) \o <<>>

LongNonBlankLines ==
    Cardinality({k \in 1..Len(ContentLines) :
                    Len(ContentLines[k]) > 80 /\ NonBlank(ContentLines[k])})

BlankLines == Cardinality({k \in 1..Len(ContentLines) : ~NonBlank(ContentLines[k])})

FirstLineShort == Len(ContentLines[1]) < 60

HasCallToAction == AnyIn(cta_indicators, Lower(content))

HasPostscript == In(<<"P", "S", ":">>, content) \/ In(<<"P", ".", "S", ".">>, content)

\* C10: the validator returns 6 feedback entries in check order and a score
\* that is the sum of the weights of the checks that pass: at most 2
\* non-blank lines longer than 80 characters (20), first line shorter than
\* 60 characters (20), at least 2 blank lines (15), a call-to-action
\* indicator (20), "PS:" or "P.S." (15), total length <= 2500 (10); the
\* score is between 0 and 100.
C10_ValidatorScore ==
    tool = "validate_linkedin_formatting" =>
        /\ result.score = Weight(LongNonBlankLines <= 2, 20) + Weight(FirstLineShort, 20)
                          + Weight(BlankLines >= 2, 15) + Weight(HasCallToAction, 20)
                          + Weight(HasPostscript, 15) + Weight(Len(content) <= 2500, 10)
        /\ result.score \in 0..100
        /\ Len(result.feedback) = 6
        /\ result.feedback[1] \in
              {"[OK] Good line length - thoughts broken into digestible pieces",
               "[X] Too many long lines. Break thoughts into shorter lines (max 80 chars)"}
        /\ result.feedback[2] \in
              {"[OK] Strong hook - first line is concise and impactful",
               "[X] Hook too long - first line should be under 60 characters"}
        /\ result.feedback[3] \in
              {"[OK] Good use of white space between sections",
               "[X] Need more white space - add empty lines between sections"}
        /\ result.feedback[4] \in
              {"[OK] Clear call-to-action present",
               "[X] Missing call-to-action - add questions or engagement prompts"}
        /\ result.feedback[5] \in
              {"[OK] PS section included",
               "[X] Missing PS section - add postscript for extra engagement"}
        /\ result.feedback[6] \in
              {"[OK] Under 2,500 character limit",
               "[X] Over 2,500 character limit - needs to be shortened"}

C10_Witness ==
    /\ tool = "validate_linkedin_formatting"
    /\ LongNonBlankLines = 2
    /\ ~FirstLineShort
    /\ BlankLines >= 2
    /\ HasCallToAction
    /\ HasPostscript
    /\ Len(content) <= 2500
    /\ result.score = 80

\* The case of C11: a post of 3000 characters whose first line has 70
\* characters, with exactly one line above 80 characters, that one of 90,
\* no blank line, no call-to-action indicator and no postscript marker.
C11_Case ==
    /\ tool = "validate_linkedin_formatting"
    /\ Len(content) = 3000
    /\ Len(ContentLines[1]) = 70
    /\ LongNonBlankLines = 1
    /\ \E k \in 1..Len(ContentLines) : Len(ContentLines[k]) = 90
    /\ BlankLines = 0
    /\ ~HasCallToAction
    /\ ~HasPostscript

\* C11 as stated: a post with one 90-character line, a first line of 70
\* characters, no blank lines, no call-to-action, no PS and a total length
\* of 3000 gets score 0 from validate_linkedin_formatting.
C11_ScoreZero == C11_Case => result.score = 0

\* C11, amended: such a post gets score 20: one long line is not more than
\* two, so the line-length check passes, and the other five checks fail.
C11_ScoreTwenty ==
    C11_Case =>
        /\ result.score = 20
        /\ result.feedback =
              <<"[OK] Good line length - thoughts broken into digestible pieces",
                "[X] Hook too long - first line should be under 60 characters",
                "[X] Need more white space - add empty lines between sections",
                "[X] Missing call-to-action - add questions or engagement prompts",
                "[X] Missing PS section - add postscript for extra engagement",
                "[X] Over 2,500 character limit - needs to be shortened">>

C11_Witness == C11_Case /\ result.score = 20

\* C12 as stated: on the empty string both scoring functions return, every
\* check gives its fail feedback (5 for the scorer, 6 for the validator)
\* and each score is 0.
C12_AllChecksFail ==
    (content = <<>> /\ tool \in {"check_engagement_potential", "validate_linkedin_formatting"}) =>
        /\ result.score = 0
        /\ Len(result.feedback) = IF tool = "check_engagement_potential" THEN 5 ELSE 6
        /\ \A k \in 1..Len(result.feedback) : result.feedback[k] \in
              {"[X] No questions found - add questions to encourage engagement",
               "[!] Consider adding personal experience or story",
               "[!] Consider adding actionable tips or insights",
               "[X] Needs better paragraph formatting",
               "[X] Length needs adjustment",
               "[X] Too many long lines. Break thoughts into shorter lines (max 80 chars)",
               "[X] Hook too long - first line should be under 60 characters",
               "[X] Need more white space - add empty lines between sections",
               "[X] Missing call-to-action - add questions or engagement prompts",
               "[X] Missing PS section - add postscript for extra engagement",
               "[X] Over 2,500 character limit - needs to be shortened"}

\* C12, amended: on the empty string both functions return; the scorer
\* fails all 5 checks and scores 0; the validator fails the white-space,
\* call-to-action and PS checks but passes the line-length, hook and
\* character-limit checks, which an empty text satisfies, and scores 50.
C12_EmptyString ==
    /\ (content = <<>> /\ tool = "check_engagement_potential") =>
          /\ result.score = 0
          /\ result.level = "LOW"
          /\ result.feedback =
                <<"[X] No questions found - add questions to encourage engagement",
                  "[!] Consider adding personal experience or story",
                  "[!] Consider adding actionable tips or insights",
                  "[X] Needs better paragraph formatting",
                  "[X] Length needs adjustment">>
    /\ (content = <<>> /\ tool = "validate_linkedin_formatting") =>
          /\ result.score = 50
          /\ result.feedback =
                <<"[OK] Good line length - thoughts broken into digestible pieces",
                  "[OK] Strong hook - first line is concise and impactful",
                  "[X] Need more white space - add empty lines between sections",
                  "[X] Missing call-to-action - add questions or engagement prompts",
                  "[X] Missing PS section - add postscript for extra engagement",
                  "[OK] Under 2,500 character limit">>

C12_Witness ==
    /\ content = <<>>
    /\ tool = "validate_linkedin_formatting"
    /\ result.score = 50
    /\ Len(result.feedback) = 6

\* C13: for every string argument each of the five core functions returns
\* a string and never raises: every call, whatever its arguments, ends
\* with a result, and the result is the text its return statement formats.
C13_AlwaysAString ==
    tool # "none" =>
        /\ result # NoResult
        /\ result # None
        /\ CASE tool \in {"analyze_post_length", "analyze_post_length_linkedin"} ->
                  /\ DOMAIN result = {"length", "verdict", "advice"}
                  /\ result.length = Len(content)
             [] tool \in {"suggest_hashtags", "suggest_hashtags_linkedin"} ->
                  /\ DOMAIN result = {"label", "hashtags"}
                  /\ result.label = "Recommended hashtags:"
             [] tool = "check_engagement_potential" ->
                  /\ DOMAIN result = {"score", "level", "feedback"}
                  /\ result.score \in Nat
             [] tool = "validate_linkedin_formatting" ->
                  /\ DOMAIN result = {"score", "feedback"}
                  /\ result.score \in Nat
             [] tool = "format_linkedin_post_correctly" ->
                  /\ DOMAIN result = {"header", "body"}
                  /\ result.header = "CORRECTLY FORMATTED VERSION:"

\* The longest post has been measured, and the empty one formatted.
C13_Witness ==
    \/ /\ tool = "analyze_post_length"
       /\ Len(content) = 3001
       /\ result.verdict = "TOO LONG"
    \/ /\ tool = "format_linkedin_post_correctly"
       /\ content = <<>>
       /\ result.body = <<>>

\* The lines of the formatter's output that follow the header and the
\* empty line after it.
OutputLines == Split(result.body)

ContentLinesOut == SelectSeq(OutputLines, LAMBDA line : line # <<>>)

\* The characters of s that are not whitespace, in their order.
Ink(s) == SelectSeq(s, LAMBDA ch : ch \notin Whitespace)

\* C15: every non-blank line the formatter builds has at most 15
\* characters, unless it is a single word of more than 15 characters, which
\* is emitted verbatim on a line of its own.
C15_LineWidth ==
    tool = "format_linkedin_post_correctly" =>
        \A k \in 1..Len(OutputLines) :
            LET line == OutputLines[k]
            IN  NonBlank(line) =>
                    \/ Len(line) <= 15
                    \/ /\ \A i \in 1..Len(line) : line[i] \notin Whitespace
                       /\ In(line, content)

\* A line of several words, a line of exactly 15 characters and a word of
\* 16 characters on its own line have all been built.
C15_Witness ==
    /\ tool = "format_linkedin_post_correctly"
    /\ \E k \in 1..Len(OutputLines) : Len(OutputLines[k]) = 16
    /\ \E k \in 1..Len(OutputLines) : Len(OutputLines[k]) = 15
    /\ \E k \in 1..Len(OutputLines) : In(<<" ">>, OutputLines[k])

\* The text after whitespace normalisation: its words, as separated by
\* any run of whitespace.
Normalized(s) == split_words(s)

\* Every full stop, exclamation mark and question mark of the content ends
\* the content or is followed by whitespace.
BreaksEndWords ==
    \A i \in 1..(Len(content) - 1) :
        content[i] \in {".", "!", "?"} => content[i + 1] \in Whitespace

\* C16 as stated: joining the non-empty output lines with single spaces
\* reproduces the original content up to whitespace normalisation.
C16_RoundTrip ==
    tool = "format_linkedin_post_correctly" =>
        Normalized(join(<<" ">>, ContentLinesOut)) = Normalized(content)

\* C16, amended: joining the non-empty output lines with single spaces
\* reproduces the non-whitespace characters of the original content in
\* their order (none added, dropped or reordered); the joined text equals
\* the content up to whitespace normalisation when every ".", "!" and "?"
\* of the content is followed by whitespace or ends it -- inside a word
\* the formatter puts whitespace after the mark.
C16_InkPreserved ==
    tool = "format_linkedin_post_correctly" =>
        LET joined == join(<<" ">>, ContentLinesOut)
        IN  /\ Ink(joined) = Ink(content)
            /\ BreaksEndWords => Normalized(joined) = Normalized(content)

\* A post of several words has been formatted, with a full stop inside a
\* word, and another with whitespace the formatter has changed.
C16_Witness ==
    /\ tool = "format_linkedin_post_correctly"
    /\ Len(Ink(content)) > 15
    /\ \/ /\ ~BreaksEndWords
          /\ Normalized(join(<<" ">>, ContentLinesOut)) # Normalized(content)
       \/ /\ BreaksEndWords
          /\ Len(ContentLinesOut) >= 3
          /\ In(<<"\t">>, content)
          /\ join(<<" ">>, ContentLinesOut) # content

\* C17: one blank line follows every second content line and none follows
\* the last: with n >= 1 content lines there are exactly (n - 1) \div 2
\* blank lines, no two of them adjacent, and the output neither starts nor
\* ends with one.
C17_Spacing ==
    (tool = "format_linkedin_post_correctly" /\ Len(ContentLinesOut) >= 1) =>
        LET n == Len(ContentLinesOut)
            blank == {k \in 1..Len(OutputLines) : OutputLines[k] = <<>>}
        IN  /\ Cardinality(blank) = (n - 1) \div 2
            /\ blank = {k \in 1..Len(OutputLines) : k % 3 = 0}
            /\ \A k \in blank : k + 1 \notin blank
            /\ 1 \notin blank
            /\ Len(OutputLines) \notin blank

\* Four content lines have been spaced with one blank line.
C17_Witness ==
    /\ tool = "format_linkedin_post_correctly"
    /\ Len(ContentLinesOut) = 4
    /\ Len(OutputLines) = 5
    /\ OutputLines[3] = <<>>

\* The industry is one of the two that only linkedin_agent_example.py lists.
ExtraIndustry == Lower(industry) \in {<<"h", "r">>, <<"c", "o", "n", "s", "u", "l", "t", "i", "n", "g">>}

\* C19: the four copies of suggest_hashtags return the same result for
\* every topic and industry except "hr" and "consulting" in any case; for
\* these two only the copy of linkedin_agent_example.py contributes industry
\* hashtags -- its first two of that industry, ahead of what the others
\* return -- and the other three treat them as an unknown industry.
C19_CopiesAgree ==
    tool \in {"suggest_hashtags", "suggest_hashtags_linkedin",
              "suggest_hashtags_app", "suggest_hashtags_streamlit"} =>
        LET web == suggest_hashtags(topic, industry)
            app == suggest_hashtags_app(topic, industry)
            streamlit == suggest_hashtags_streamlit(topic, industry)
            linkedin == suggest_hashtags_linkedin(topic, industry)
            unknown == <<"u", "n", "k", "n", "o", "w", "n">>
        IN  /\ result = CASE tool = "suggest_hashtags" -> web
                          [] tool = "suggest_hashtags_app" -> app
                          [] tool = "suggest_hashtags_streamlit" -> streamlit
                          [] tool = "suggest_hashtags_linkedin" -> linkedin
            /\ app = web
            /\ streamlit = web
            /\ ~ExtraIndustry => linkedin = web
            /\ ExtraIndustry =>
                  /\ web = suggest_hashtags(topic, unknown)
                  /\ linkedin.hashtags =
                        Take(industry_hashtags_linkedin[Lower(industry)], 2) \o web.hashtags
                  /\ linkedin # web

\* The copy of app.py has answered for the sales industry on a topic with
\* a keyword, and so has every copy for "HR".
C19_Witness ==
    \/ /\ tool = "suggest_hashtags_app"
       /\ Lower(industry) = <<"s", "a", "l", "e", "s">>
       /\ TopicMatched # <<>>
       /\ Len(result.hashtags) = 5
    \/ /\ tool = "suggest_hashtags_streamlit"
       /\ industry = <<"H", "R">>
       /\ result.hashtags = <<"#LinkedIn">>

\* What the tool of a call returns on the call's arguments when it runs by
\* itself, from entry to return.
Alone(e) ==
    CASE e.tool = "analyze_post_length" -> analyze_post_length(e.content)
      [] e.tool = "suggest_hashtags" -> suggest_hashtags(e.topic, e.industry)
      [] e.tool = "check_engagement_potential" -> check_engagement_potential(e.content)
      [] e.tool = "format_linkedin_post_correctly" -> format_linkedin_post_correctly(e.content)
      [] e.tool = "validate_linkedin_formatting" -> validate_linkedin_formatting(e.content)

SameCall(d, e) ==
    /\ d.tool = e.tool
    /\ d.content = e.content
    /\ d.topic = e.topic
    /\ d.industry = e.industry

\* C14: the five core functions are deterministic and keep no hidden
\* state: two calls with identical arguments, in any position of any
\* sequence of calls, return identical output.
C14_Deterministic ==
    \A i, j \in 1..Len(returned) :
        SameCall(returned[i], returned[j]) => returned[i].result = returned[j].result

\* The same call has returned first and third, a call of another tool
\* between them.
C14_Witness ==
    /\ Len(returned) = 3
    /\ SameCall(returned[1], returned[3])
    /\ returned[2].tool # returned[1].tool
    /\ returned[1].result = returned[3].result
    /\ returned[1].tool \in {"check_engagement_potential", "suggest_hashtags"}

\* C18: the five functions share no mutable state: whatever the
\* interleaving of concurrent callers, every call returns what it returns
\* when run alone, and the hashtag catalog and the indicator lists a call
\* works with are the ones the source writes, up to its return.
C18_Isolated ==
    /\ \A i \in 1..Len(returned) : returned[i].result = Alone(returned[i])
    /\ \A c \in Callers :
          (InCall(frames[c]) /\ frames[c].pc = Stages(frames[c].tool)) =>
              return_value(frames[c]) = Alone(frames[c])
    /\ \A c \in Callers :
          LET l == frames[c].locals
          IN  /\ frames[c].tool = "suggest_hashtags" =>
                    /\ l.general_hashtags = general_hashtags
                    /\ l.industry_hashtags = industry_hashtags
              /\ frames[c].tool = "check_engagement_potential" =>
                    /\ l.personal_indicators = personal_indicators
                    /\ l.action_words = action_words
              /\ frames[c].tool = "validate_linkedin_formatting" =>
                    l.cta_indicators = cta_indicators

\* A call of suggest_hashtags has run all its stages between the stages of
\* another caller's call of the same tool, a call has already returned.
C18_Witness ==
    /\ returned # <<>>
    /\ \E c \in Callers, d \in Callers :
          /\ c # d
          /\ frames[c].tool = "suggest_hashtags"
          /\ frames[c].overlapped
          /\ frames[c].pc = Stages(frames[c].tool)
          /\ frames[d].tool = "suggest_hashtags"
          /\ frames[d].pc \in 1..4
          /\ frames[d].overlapped

\* The frames sent on one websocket are in order: a response or error
\* frame comes right after a thinking frame, no thinking frame is followed
\* by another; when the handler reads the next frame every message it has
\* taken has its thinking frame and its one response or error frame, and
\* while it runs the agent or sends the reply the thinking frame of that
\* message is the last frame sent.
C20_Order ==
    \A w \in Connections :
        LET frames_sent == sent[w]
            h == handler[w]
        IN  /\ \A k \in 1..Len(frames_sent) :
                   frames_sent[k].type \in {"response", "error"} =>
                       k > 1 /\ frames_sent[k - 1].type = "thinking"
            /\ \A k \in 1..(Len(frames_sent) - 1) :
                   frames_sent[k].type = "thinking" =>
                       frames_sent[k + 1].type \in {"response", "error"}
            /\ h.pc = "receive" => Len(frames_sent) = 2 * h.messages
            /\ h.pc \in {"run", "send response", "send error"} =>
                   /\ Len(frames_sent) = 2 * h.messages - 1
                   /\ frames_sent[Len(frames_sent)].type = "thinking"

Registered(w) == \E k \in 1..Len(active_connections) : active_connections[k] = w

\* The last entry of a session's history, None when it has none.
LastEntry(session_id) ==
    LET history == conversation_history[session_id]
    IN  IF history = <<>> THEN None ELSE history[Len(history)]

\* The step of handler w in which the agent run raises.
RunRaisesStep(w) ==
    /\ handler[w].pc = "run"
    /\ handler'[w].pc \notin {"run", "send response"}

\* The step of handler w that sends the error frame of a raised run to a
\* client that is still there.
ReportsStep(w) ==
    /\ handler[w].pc = "send error"
    /\ handler[w].error \in RunErrors
    /\ client_open[w]
    /\ handler'[w] # handler[w]

\* C21: when the agent run raises, the handler goes on to send an error
\* frame whose message is str(e) of the raised exception, the websocket
\* stays registered, the handler is back at reading the next frame once the
\* frame is sent, and neither step changes the history: the user entry of
\* the failed message stays and no assistant entry is added.
C21_ErrorReported ==
    [][\A w \in Connections :
          /\ RunRaisesStep(w) =>
                /\ handler'[w].pc = "send error"
                /\ handler'[w].error \in RunErrors
                /\ Registered(w)'
                /\ [role |-> "user", content |-> handler[w].content]
                       \in Range(conversation_history[handler[w].session_id])
                /\ UNCHANGED <<conversation_history, active_connections, sent>>
          /\ ReportsStep(w) =>
                /\ sent'[w] = Append(sent[w], [type |-> "error",
                                               message |-> str(handler[w].error)])
                /\ handler'[w].pc = "receive"
                /\ Registered(w)'
                /\ UNCHANGED <<conversation_history, active_connections>>]_vars

\* A connection whose first message failed has had the error frame and has
\* gone on to its second message; the history of its session holds the two
\* user entries and no assistant entry.
C21_Witness ==
    \E w \in Connections :
        /\ Len(sent[w]) = 3
        /\ sent[w][2] = [type |-> "error", message |-> "agent failed"]
        /\ sent[w][3].type = "thinking"
        /\ handler[w].pc = "run"
        /\ Registered(w)
        /\ conversation_history[handler[w].session_id]
               = <<[role |-> "user", content |-> "hello"], [role |-> "user", content |-> "hello"]>>

\* The agent a request is to be served by: the agent of its agent key in
\* the catalog, of key "simple" when it names none, and the simple agent for
\* a key the catalog does not have.
ServedBy(catalog, object) ==
    LET key == IF "agent" \in DOMAIN object THEN object.agent ELSE "simple"
    IN  IF key \in DOMAIN catalog THEN catalog[key] ELSE "Personal Assistant"

\* Every POST /chat request that has reached the agent run, and every
\* websocket message that has, runs the agent its key selects.
C22_RunsSelected ==
    /\ \A c \in ChatClients :
          chat[c].pc \in {"run", "responded"} =>
              /\ chat[c].agent_name = ServedBy(AGENTS_app, chat[c].body)
              /\ chat[c].status = 200 => chat[c].response.agent_name = chat[c].agent_name
    /\ \A w \in Connections :
          handler[w].pc \in {"run", "send response"} =>
              handler[w].agent_name = ServedBy(AGENTS, handler[w].message_data)

\* C22: a chat request whose agent key is not a key of AGENTS is served by
\* the simple agent "Personal Assistant", a request without an agent key by
\* the agent of key "simple", for POST /chat of app.py and for websocket
\* messages of web_ui_server.py; no such request is rejected, and the
\* agent_name of the response is the name of the agent that was run.
C22_UnknownKeyServedBySimple ==
    /\ []C22_RunsSelected
    /\ [][\A w \in Connections :
             Len(sent'[w]) > Len(sent[w]) /\ sent'[w][Len(sent'[w])].type = "response" =>
                 sent'[w][Len(sent'[w])].agent_name = handler[w].agent_name]_vars
    /\ [][\A w \in Connections :
             handler[w].pc = "receive" /\ handler'[w].message_data # None
                 /\ "type" \in DOMAIN handler'[w].message_data
                 /\ handler'[w].message_data.type = "message"
                 /\ "content" \in DOMAIN handler'[w].message_data
             => handler'[w].pc = "send thinking"]_vars
    /\ [][\A c \in ChatClients :
             chat[c].pc = "run" /\ chat'[c].status = 200 =>
                 chat'[c].response.agent_name = chat[c].agent_name]_vars

\* A POST /chat request with agent key "math", which app.py does not have,
\* has been answered by the Personal Assistant, and a websocket message with
\* the unknown key "nonesuch" has had its response from the Personal
\* Assistant.
C22_Witness ==
    /\ \E c \in ChatClients :
          /\ chat[c].body = [message |-> "hello", agent |-> "math"]
          /\ chat[c].status = 200
          /\ chat[c].response.agent_name = "Personal Assistant"
    /\ \E w \in Connections :
          /\ Len(sent[w]) = 2
          /\ sent[w][2].type = "response"
          /\ sent[w][2].agent_name = "Personal Assistant"
          /\ conversation_history[handler[w].session_id][1].content = "hello"
          /\ handler[w].received = 1

\* Every character of the expression is a digit, one of + - * / . ( ) or
\* whitespace.
OnlyAllowedCharacters ==
    \A i \in 1..Len(content) :
        content[i] \in {"0", "1", "2", "3", "4", "5", "6", "7", "8", "9",
                        "+", "-", "*", "/", ".", "(", ")", " ", "\n", "\t", "\r"}

\* C23: calculate does not evaluate an expression with a character other
\* than digits, + - * / . ( ) and whitespace: its result is "Error: Only
\* basic mathematical operations are allowed".  For an expression of allowed
\* characters the result is the value, or "Error calculating" with the
\* exception of the evaluation; no exception leaves calculate, and the empty
\* expression gives "Error calculating" with a SyntaxError.
C23_CalculateGuarded ==
    tool = "calculate" =>
        /\ "raised" \notin DOMAIN result
        /\ ~OnlyAllowedCharacters <=>
               result = [error |-> "Error: Only basic mathematical operations are allowed"]
        /\ OnlyAllowedCharacters =>
               \/ /\ DOMAIN result = {"header", "result"}
                  /\ result.header = "Result"
                  /\ result.result.k \in {"int", "float", "tuple", "ellipsis"}
               \/ /\ DOMAIN result = {"error", "expression", "exception"}
                  /\ result.error = "Error calculating"
                  /\ result.expression = content
                  /\ result.exception \in {"SyntaxError", "ZeroDivisionError", "TypeError"}
        /\ content = <<>> => "error" \in DOMAIN result /\ result.error = "Error calculating"

\* 1/0 has been calculated: the ZeroDivisionError is returned as text.
C23_Witness ==
    /\ tool = "calculate"
    /\ content = <<"1", "/", "0">>
    /\ result = [error |-> "Error calculating", expression |-> content,
                 exception |-> "ZeroDivisionError"]

\* websocket_endpoint has finished for websocket w.
Finished(w) == handler[w].pc \in {"disconnected", "failed"}

\* C24: whenever websocket_endpoint has finished for a connection, by a
\* client disconnect or by any exception (a frame that is not JSON, a frame
\* without "type"), the websocket is no longer in active_connections.
C24_FinishedUnregistered ==
    \A w \in Connections : Finished(w) => ~Registered(w)

\* C25: in every session's conversation_history each assistant entry comes
\* right after a user entry, the one it answers, for every interleaving of
\* messages, two websockets open with the same session_id included.
C25_AssistantFollowsUser ==
    \A session_id \in DOMAIN conversation_history :
        LET history == conversation_history[session_id]
        IN  \A k \in 1..Len(history) :
                history[k].role = "assistant" =>
                    k > 1 /\ history[k - 1].role = "user"

\* Sequence s is the beginning of sequence t.
IsPrefix(s, t) == Len(s) <= Len(t) /\ \A k \in 1..Len(s) : s[k] = t[k]

\* C26: conversation_history[session_id] only grows: every step keeps every
\* session and the entries it has, in their order, whatever the step is
\* (connect, message, agent failure, disconnect, reconnect with the same
\* session_id); a session is new only in a connect, with an empty history,
\* and a disconnect changes no history.
C26_HistoryOnlyGrows ==
    [][/\ \A s \in DOMAIN conversation_history :
             /\ s \in DOMAIN conversation_history'
             /\ IsPrefix(conversation_history[s], conversation_history'[s])
       /\ \A s \in DOMAIN conversation_history' \ DOMAIN conversation_history :
             /\ conversation_history'[s] = <<>>
             /\ \E w \in Connections :
                   /\ handler[w].pc = "not started"
                   /\ handler'[w].pc = "receive"
                   /\ handler'[w].session_id = s
       /\ (\E w \in Connections : ~Finished(w) /\ Finished(w)') =>
             UNCHANGED conversation_history]_vars

\* A websocket of a session has failed a message and is disconnected; the
\* other has connected with the same session_id and has had its message
\* answered: the history holds the first user entry and the later two.
C26_Witness ==
    \E w1, w2 \in Connections :
        /\ handler[w1].pc = "disconnected"
        /\ Len(sent[w1]) = 2
        /\ sent[w1][2].type = "error"
        /\ handler[w2].session_id = handler[w1].session_id
        /\ ~Registered(w1)
        /\ Registered(w2)
        /\ sent[w2] = <<[type |-> "thinking"]>>
        /\ handler[w2].pc = "send response"
        /\ conversation_history[handler[w1].session_id]
               = <<[role |-> "user", content |-> "hello"],
                   [role |-> "user", content |-> "hello"],
                   [role |-> "assistant", content |-> "answer"]>>

\* Handler w has started the agent run of its message and has not yet
\* replied.
Running(w) == handler[w].pc \in {"run", "send response", "send error"}

\* C27: the input passed to the agent for a websocket message is that
\* message's content and the agent is the one its agent key selects; two
\* connections whose messages have the same content and the same agent key
\* run the same agent on the same input, whatever their sessions' histories
\* hold.
C27_InputIsContent ==
    /\ \A w \in Connections :
          Running(w) =>
              /\ handler[w].input = handler[w].message_data.content
              /\ handler[w].agent_name = agents_get(handler[w].agent_type)
    /\ \A w1, w2 \in Connections :
          /\ Running(w1) /\ Running(w2)
          /\ handler[w1].message_data.content = handler[w2].message_data.content
          /\ handler[w1].agent_type = handler[w2].agent_type
          => /\ handler[w1].input = handler[w2].input
             /\ handler[w1].agent_name = handler[w2].agent_name

\* A session's history begins with the message "hi" and its answer; the
\* connection's next message "hello" for the math agent is being run, on
\* the input "hello".
C27_Witness ==
    \E w \in Connections :
        /\ handler[w].pc = "run"
        /\ handler[w].message_data = [type |-> "message", content |-> "hello", agent |-> "math"]
        /\ conversation_history[handler[w].session_id]
               = <<[role |-> "user", content |-> "hi"],
                   [role |-> "assistant", content |-> "answer"],
                   [role |-> "user", content |-> "hello"]>>
        /\ handler[w].input = "hello"
        /\ handler[w].agent_name = "Math Specialist"

\* The keyword rules of suggest_hashtags in declared order.
TopicRules == <<
    [keywords |-> {<<"l", "e", "a", "r", "n">>, <<"e", "d", "u", "c", "a", "t", "i", "o", "n">>},
     hashtags |-> <<"#Learning", "#ProfessionalDevelopment", "#SkillBuilding">>],
    [keywords |-> {<<"s", "u", "c", "c", "e", "s", "s">>, <<"a", "c", "h", "i", "e", "v", "e", "m", "e", "n", "t">>},
     hashtags |-> <<"#Success", "#Achievement", "#Goals">>],
    [keywords |-> {<<"t", "e", "a", "m">>, <<"c", "o", "l", "l", "a", "b", "o", "r", "a", "t", "i", "o", "n">>},
     hashtags |-> <<"#Teamwork", "#Collaboration", "#TeamSuccess">>],
    [keywords |-> {<<"t", "i", "p">>, <<"a", "d", "v", "i", "c", "e">>},
     hashtags |-> <<"#Tips", "#Advice", "#BestPractices">>] >>

RuleMatches(i) == \E keyword \in TopicRules[i].keywords : In(keyword, Lower(topic))

RuleHashtags == UNION { Range(TopicRules[i].hashtags) : i \in 1..Len(TopicRules) }

\* C28: when at least one keyword rule matches the topic, the hashtags of
\* keyword rules in the result are exactly the first 2 hashtags of the first
\* matching rule in declared order (learn/education, success/achievement,
\* team/collaboration, tip/advice); no hashtag of a later matching rule and
\* no third hashtag appears.
C28_FirstMatchingRule ==
    (/\ tool \in {"suggest_hashtags", "suggest_hashtags_linkedin",
                  "suggest_hashtags_app", "suggest_hashtags_streamlit"}
     /\ \E i \in 1..Len(TopicRules) : RuleMatches(i)) =>
        LET first == CHOOSE i \in 1..Len(TopicRules) :
                         RuleMatches(i) /\ \A j \in 1..(i - 1) : ~RuleMatches(j)
        IN  SelectSeq(result.hashtags, LAMBDA tag : tag \in RuleHashtags)
                = <<TopicRules[first].hashtags[1], TopicRules[first].hashtags[2]>>

\* The topic "team success tips" matches three rules, the success rule
\* first: its first two hashtags are in the result, after the industry's.
C28_Witness ==
    /\ tool = "suggest_hashtags"
    /\ Lower(topic) = <<"t", "e", "a", "m", " ", "s", "u", "c", "c", "e", "s", "s", " ", "t", "i", "p", "s">>
    /\ Lower(industry) = <<"t", "e", "c", "h">>
    /\ Len(result.hashtags) = 5
    /\ result.hashtags[3] = "#Success"
    /\ result.hashtags[4] = "#Achievement"

\* C29: in linkedin_agent_example.py and streamlit_ui.py the length
\* classifier and the engagement scorer agree on every text:
\* analyze_post_length reports OPTIMAL LENGTH exactly when
\* check_engagement_potential gives its 20 length points, which is when
\* 1300 <= length <= 3000.
C29_ClassifierAgreesWithScorer ==
    /\ tool = "analyze_post_length_linkedin" =>
          /\ (result.verdict = "OPTIMAL LENGTH") <=> (length_check(content).points = 20)
          /\ (result.verdict = "OPTIMAL LENGTH") <=> (1300 <= Len(content) /\ Len(content) <= 3000)
    /\ tool = "check_engagement_potential" =>
          /\ ("[OK] Optimal length" \in Range(result.feedback))
                 <=> (analyze_post_length_linkedin(content).verdict = "OPTIMAL LENGTH")
          /\ ("[X] Length needs adjustment" \in Range(result.feedback))
                 <=> (analyze_post_length_linkedin(content).verdict # "OPTIMAL LENGTH")
          /\ ("[OK] Optimal length" \in Range(result.feedback))
                 <=> (1300 <= Len(content) /\ Len(content) <= 3000)

\* A text of exactly 3000 characters has been scored: it has its length
\* points, and the classifier calls it OPTIMAL LENGTH.
C29_Witness ==
    /\ tool = "check_engagement_potential"
    /\ Len(content) = 3000
    /\ "[OK] Optimal length" \in Range(result.feedback)
    /\ analyze_post_length_linkedin(content).verdict = "OPTIMAL LENGTH"

\* How many of the five checks of the engagement scorer the content passes.
ChecksPassed ==
    Weight(HasQuestionMark, 1) + Weight(HasFirstPersonPhrase, 1) + Weight(HasActionWord, 1)
        + Weight(HasDoubleNewline, 1) + Weight(LengthInWindow, 1)

\* The notes the scorer's feedback has for the checks that pass.
PassNotes ==
    {"[OK] Contains questions (encourages comments)",
     "[OK] Includes personal experience (builds connection)",
     "[OK] Contains actionable content",
     "[OK] Good paragraph breaks",
     "[OK] Optimal length"}

\* C30: whenever check_engagement_potential reports the level HIGH, the
\* first-person check has passed and at least 4 of the 5 checks have passed;
\* a text without a first-person phrase is never rated HIGH.
C30_HighNeedsFirstPerson ==
    tool = "check_engagement_potential" =>
        /\ result.level = "HIGH" =>
              /\ HasFirstPersonPhrase
              /\ "[OK] Includes personal experience (builds connection)"
                     \in Range(result.feedback)
              /\ ChecksPassed >= 4
              /\ Cardinality({k \in 1..Len(result.feedback) :
                                  result.feedback[k] \in PassNotes}) >= 4
        /\ ~HasFirstPersonPhrase => result.level # "HIGH"

\* A text with a first-person phrase that fails the paragraph check only is
\* rated HIGH with 85 points.
C30_Witness ==
    /\ tool = "check_engagement_potential"
    /\ result.level = "HIGH"
    /\ result.score = 85
    /\ HasFirstPersonPhrase
    /\ ~HasDoubleNewline
    /\ ChecksPassed = 4

===========================================================================
